---- MODULE Spec2Model ----
(***************************************************************************)
(* CalDAV client of the calendar sync service: server discovery            *)
(* (caldav.go), calendar enumeration and event queries (calendar.go) and   *)
(* the mapping of raw events to calendar items (calendar item file).       *)
(*                                                                         *)
(* The host is one that caldav.NewServer accepts (its error is dropped at  *)
(* caldav.go:79).  A Go panic ends the call: the position becomes "panic". *)
(*                                                                         *)
(* Strings that the code inspects character by character (hrefs, paths)    *)
(* are sequences of one-character strings.  Go pointers that may be nil    *)
(* are sequences of length 0 (nil) or 1 (the pointee).                     *)
(***************************************************************************)
EXTENDS Integers, Sequences, FiniteSets, TLC

VARIABLES
    \* ---- NewClient / discoverServer (caldav.go) ----
    dpc,            \* position inside NewClient: "start", "principal", "homeset", "returned", "panic"
    idx,            \* index of the candidate path the loop of discoverServer is at
    errs,           \* discoverServer's errs slice
    principalPath,  \* findCalendarHomeSet's path after the first query (unescaped principal href)
    sent,           \* every Propfind handed to the transport, in order
    replies,        \* what the server answered to sent[n]
    ncClient,       \* NewClient's first result: <<>> (nil) or <<client>>
    ncErr,          \* NewClient's second result
    \* ---- client.CalendarEvents (calendar.go) ----
    epc,            \* position inside CalendarEvents: "ready", "enumerate", "query", "returned", "panic"
    calls,          \* how many calls of CalendarEvents this client has served
    client,         \* the receiver: [path, emailAddress]
    query,          \* the range query of the call: <<>> or <<window>>
    multistatus,    \* the Responses findCalendars received
    calendars,      \* the list findCalendars returned
    cal,            \* index of the calendar the loop of CalendarEvents is at
    calendarItems,  \* the calendarItems slice
    queries,        \* every request CalendarEvents handed to the transport, in order
    answers,        \* what the server answered to each event query
    ceResult,       \* CalendarEvents' first result: <<>> (nil) or <<list>>
    ceErr,          \* CalendarEvents' second result
    \* ---- newCalendarItem (calendar item file) ----
    mpc,            \* "raw" before the mapping, "mapped" after it
    rawEvent,       \* the *components.Event
    parentCalendar, \* the *calendarListEntry
    item,           \* the *calendarItem, once mapped
    readout,        \* what the accessors of the mapped item returned: <<>> or <<record>>
    \* ---- the transport chain of the http.Client (caldav.go) ----
    tpc,            \* where the request is: "issued", "authenticated", "delivered"
    transport,      \* the package variable transport: [depth, prefer]
    credentials,    \* the username and password NewClient was given
    issued,         \* the request as the caller handed it to the http.Client
    request,        \* the *http.Request, changed in place along the chain
    delivered,      \* what the inner transport received: <<>> or <<request>>
    \* ---- the consumer: one goroutine per message (main package) ----
    runs,           \* per account, the goroutine that runs processMessage for it
    crashed,        \* the process was ended by a panic that no goroutine recovered
    logger,         \* the package variable logger of package log: "production" or "test"
    debugUsers,     \* the accounts named in DEBUG_USERS
    \* ---- processMessage and syncAccount for one message (main package) ----
    spc,            \* position: "parse", "client", "fetch", "delete", "put", "returned", "panic"
    message,        \* the message: whether its body parses, and the user's accounts
    acct,           \* index of the account the loop of processMessage is at
    stored,         \* the user's events in the store
    fetched,        \* the events CalendarEvents returned to syncAccount
    logged,         \* what logNonNilError logged, in order
    pmResult,       \* processMessage's result: <<>> before it returns, then <<err>>
    syncLog,        \* the calls syncAccount made, in order, with their outcome
    \* ---- consumeMessages and the queue (main package, sqs package) ----
    qpc,            \* position of consumeMessages: "receive", "delete", "start"
    inQueue,        \* the messages the queue holds
    batch,          \* the batch consumeMessages is at
    next,           \* index in the batch of the next message to start
    deliveries,     \* per message, how often the queue delivered it
    attempts,       \* per message, how often its delete was attempted
    failedDeletes,  \* the messages of which a delete failed
    processing      \* per message, its goroutines: how many started, returned, failed

dvars == <<dpc, idx, errs, principalPath, sent, replies, ncClient, ncErr>>
callvars == <<epc, calls, query, multistatus, calendars, cal, calendarItems, queries, answers, ceResult, ceErr>>
evars == <<client, callvars>>
mvars == <<mpc, rawEvent, parentCalendar, item, readout>>
tvars == <<tpc, transport, credentials, issued, request, delivered>>
gvars == <<runs, crashed, logger, debugUsers>>
svars == <<spc, message, acct, stored, fetched, logged, pmResult, syncLog>>
qvars == <<qpc, inQueue, batch, next, deliveries, attempts, failedDeletes, processing>>
others == <<tvars, gvars, svars, qvars>>
vars == <<dvars, evars, mvars, others>>

Min(a, b) == IF a < b THEN a ELSE b

(***************************************************************************)
(* Errors.  Every error value has the same shape so that two of them can   *)
(* always be compared: its type, the request it came from (transport       *)
(* errors are distinct per request), its text and, for the aggregate, the  *)
(* causes.                                                                 *)
(***************************************************************************)
NoError == [type |-> "nil", req |-> 0, text |-> <<>>, causes |-> <<>>]

TransportError(n) == [type |-> "transport", req |-> n, text |-> <<>>, causes |-> <<>>]

EscapeError(s) == [type |-> "EscapeError", req |-> 0, text |-> s, causes |-> <<>>]

\* errors.WF11301: an aggregate error over the given causes, in the given order
WF11301(es) == [type |-> "WF11301", req |-> 0, text |-> <<>>, causes |-> es]

(***************************************************************************)
(* url.QueryUnescape: "%XX" becomes the byte XX, "+" becomes a space, and  *)
(* a "%" not followed by two hex digits is an EscapeError carrying the     *)
(* offending (at most three) characters.                                   *)
(***************************************************************************)
HexDigits == {"0", "1", "2", "3", "4", "5", "6", "7", "8", "9",
              "a", "b", "c", "d", "e", "f", "A", "B", "C", "D", "E", "F"}

ishex(c) == c \in HexDigits

unhex(c) ==
    CASE c = "0" -> 0 [] c = "1" -> 1 [] c = "2" -> 2 [] c = "3" -> 3
      [] c = "4" -> 4 [] c = "5" -> 5 [] c = "6" -> 6 [] c = "7" -> 7
      [] c = "8" -> 8 [] c = "9" -> 9
      [] c \in {"a", "A"} -> 10 [] c \in {"b", "B"} -> 11
      [] c \in {"c", "C"} -> 12 [] c \in {"d", "D"} -> 13
      [] c \in {"e", "E"} -> 14 [] c \in {"f", "F"} -> 15

\* the character of a byte, for the bytes the modelled hrefs escape
Chr(n) ==
    CASE n = 32 -> " " [] n = 37 -> "%" [] n = 43 -> "+" [] n = 47 -> "/"
      [] n = 64 -> "@" [] n = 97 -> "a" [] n = 98 -> "b"
      [] OTHER -> "?"

RECURSIVE unescape(_)
unescape(s) ==
    IF s = <<>> THEN [err |-> NoError, val |-> <<>>]
    ELSE IF Head(s) = "%"
    THEN IF Len(s) < 3 \/ ~ishex(s[2]) \/ ~ishex(s[3])
         THEN [err |-> EscapeError(SubSeq(s, 1, Min(3, Len(s)))), val |-> <<>>]
         ELSE LET rest == unescape(SubSeq(s, 4, Len(s)))
              IN  IF rest.err # NoError THEN rest
                  ELSE [err |-> NoError,
                        val |-> <<Chr(16 * unhex(s[2]) + unhex(s[3]))>> \o rest.val]
    ELSE LET rest == unescape(Tail(s))
         IN  IF rest.err # NoError THEN rest
             ELSE [err |-> NoError,
                   val |-> <<IF Head(s) = "+" THEN " " ELSE Head(s)>> \o rest.val]

\* a mutation of QueryUnescape: the href is reused as it came
QueryUnescapeVerbatim(s) == [err |-> NoError, val |-> s]

QueryUnescape(s) == unescape(s)

(***************************************************************************)
(* The hrefs a server may return.                                          *)
(***************************************************************************)
Hrefs ==
    { <<"/", "p">>,
      <<"/", "u", "%", "4", "0", "x">>,
      <<"/", "a", "+", "b">>,
      <<"/", "%", "z", "z">> }

(***************************************************************************)
(* WebDAV multistatus entities, as far as the code reads them.             *)
(***************************************************************************)
EmptyProp ==
    [CurrentUserPrincipal |-> <<>>, CalendarHomeSet |-> <<>>, DisplayName |-> "",
     CalendarTimezone |-> <<>>, SupportedCalendarComponentSet |-> <<>>]

httpOK == "HTTP/1.1 200 OK"

PropStat(status, prop) == [Status |-> status, Prop |-> prop]

Response(href, propStats) == [Href |-> href, PropStats |-> propStats]

\* a reply of the transport to a Propfind: an error, or the responses of a multistatus
Reply(err, responses) == [err |-> err, Responses |-> responses]

\* multistatus.Responses[0].PropStats[0] can be read without an index-out-of-range panic
HasFirstPropStat(reply) ==
    /\ Len(reply.Responses) > 0
    /\ Len(reply.Responses[1].PropStats) > 0

FirstProp(reply) == reply.Responses[1].PropStats[1].Prop

\* the multistatus bodies a server may send to a discovery query for property `name`
DiscoveryBodies(name) ==
    { <<>>,
      <<Response(<<"/">>, <<>>)>>,
      <<Response(<<"/">>, <<PropStat(httpOK, EmptyProp)>>)>> }
    \cup
    { <<Response(<<"/">>, <<PropStat(httpOK, [EmptyProp EXCEPT ![name] = <<[Href |-> h]>>])>>)>>
        : h \in Hrefs }

DiscoveryReplies(name, n) ==
    {Reply(TransportError(n), <<>>)} \cup {Reply(NoError, b) : b \in DiscoveryBodies(name)}

(***************************************************************************)
(* The transport chain that NewClient builds (caldav.go:45-48, 28-32):     *)
(* the basic-auth round tripper, then customHeadersRoundTripper, then the  *)
(* logging transport over http.DefaultTransport.  A header is the list of  *)
(* its values, in the order they were added.                               *)
(***************************************************************************)
reportMethod == "REPORT"

returnMinimal == "return-minimal"

\* caldav.go:28: the package variable transport
customHeadersRoundTripper == [depth |-> "1", prefer |-> returnMinimal]

HTTPHeader(depthValues, preferValues, authorization) ==
    [Depth |-> depthValues, Prefer |-> preferValues, Authorization |-> authorization]

OutboundRequest(method, header) == [Method |-> method, Header |-> header]

BasicAuth(creds) == [scheme |-> "Basic", username |-> creds.username, password |-> creds.password]

Credentials ==
    { [username |-> "a@x", password |-> "pw1"],
      [username |-> "b@x", password |-> "pw2"] }

\* the requests a caller may hand to the http.Client
OutboundRequests ==
    { OutboundRequest(method, HTTPHeader(d, p, a)) :
        method \in {"PROPFIND", "REPORT", "report", "GET"},
        d \in {<<>>, <<"0">>, <<"1">>, <<"infinity">>},
        p \in {<<>>, <<"respond-async">>},
        a \in {<<>>, <<[scheme |-> "Bearer", username |-> "", password |-> "stale"]>>} }

\* the basic-auth round tripper: Request.SetBasicAuth replaces the Authorization header
basicAuth(req, creds) == [req EXCEPT !.Header.Authorization = <<BasicAuth(creds)>>]

\* a mutation of customHeaders: Depth is added whatever the method
customHeadersAnyMethod(t, req) ==
    [req EXCEPT !.Header.Depth = Append(@, t.depth),
                !.Header.Prefer = Append(@, t.prefer)]

\* customHeadersRoundTripper.RoundTrip, lines 116-119: Header.Add appends a value
customHeaders(t, req) ==
    LET withDepth ==
            IF req.Method = reportMethod
            THEN [req EXCEPT !.Header.Depth = Append(@, t.depth)]
            ELSE req
    IN  [withDepth EXCEPT !.Header.Prefer = Append(@, t.prefer)]

InitTransportIdle ==
    /\ tpc = "idle"
    /\ transport = customHeadersRoundTripper
    /\ credentials = [username |-> "", password |-> ""]
    /\ issued = <<>>
    /\ request = <<>>
    /\ delivered = <<>>

\* the accounts whose messages the consumer receives
Accounts == {"a@x", "b@x"}

\* a goroutine of consumeMessages (line 47) before it runs: the locals of
\* processMessage, syncAccount, NewClient and discoverServer
QueuedRun ==
    [pc |-> "queued", idx |-> 0, errs |-> <<>>, principalPath |-> <<>>,
     sent |-> <<>>, received |-> <<>>, ncErr |-> NoError, path |-> <<>>, result |-> ""]

InitConsumerIdle ==
    /\ runs = [a \in Accounts |-> QueuedRun]
    /\ crashed = FALSE
    /\ logger = "production"
    /\ debugUsers = {}

\* the messages in the queue
Messages == {"m1", "m2"}

\* no goroutine was started for the message
NotStarted == [started |-> 0, done |-> 0, failed |-> 0]

InitSyncIdle ==
    /\ spc = "idle"
    /\ message = [parsed |-> FALSE, accounts |-> <<>>]
    /\ acct = 0
    /\ stored = <<>>
    /\ fetched = <<>>
    /\ logged = <<>>
    /\ pmResult = <<>>
    /\ syncLog = <<>>

InitQueueIdle ==
    /\ qpc = "idle"
    /\ inQueue = {}
    /\ batch = <<>>
    /\ next = 0
    /\ deliveries = [m \in Messages |-> 0]
    /\ attempts = [m \in Messages |-> 0]
    /\ failedDeletes = {}
    /\ processing = [m \in Messages |-> NotStarted]

InitOthers == InitTransportIdle /\ InitConsumerIdle /\ InitSyncIdle /\ InitQueueIdle

InitTransport ==
    /\ tpc = "issued"
    /\ transport = customHeadersRoundTripper
    /\ credentials \in Credentials
    /\ \E req \in OutboundRequests :
         /\ issued = <<req>>
         /\ request = <<req>>
    /\ delivered = <<>>

\* the RoundTrip of the basic-auth round tripper (caldav.go:47)
BasicAuthRoundTrip ==
    /\ tpc = "issued"
    /\ request' = <<basicAuth(request[1], credentials)>>
    /\ tpc' = "authenticated"
    /\ UNCHANGED <<transport, credentials, issued, delivered>>

\* customHeadersRoundTripper.RoundTrip, lines 115-121
RoundTrip ==
    /\ tpc = "authenticated"
    /\ request' = <<customHeaders(transport, request[1])>>
    /\ delivered' = request'
    /\ tpc' = "delivered"
    /\ UNCHANGED <<transport, credentials, issued>>

(***************************************************************************)
(* NewClient, discoverServer and findCalendarHomeSet.                      *)
(***************************************************************************)
\* caldav.go:26; the characters of "", "/caldav", "/caldav/st", "/.well-known/caldav"
paths ==
    << <<>>,
       <<"/", "c", "a", "l", "d", "a", "v">>,
       <<"/", "c", "a", "l", "d", "a", "v", "/", "s", "t">>,
       <<"/", ".", "w", "e", "l", "l", "-", "k", "n", "o", "w", "n",
         "/", "c", "a", "l", "d", "a", "v">> >>

Usernames == {"a@x"}

Request(c, q, p) == [cand |-> c, query |-> q, path |-> p]

\* a mutation of appendError: the newest error goes first
appendErrorFirst(es, e) == <<e>> \o es

\* discoverServer, line 83: errs = append(errs, err)
appendError(es, e) == Append(es, e)

\* a mutation of loopControl: a success does not end the loop
loopControlNoReturn(i, failed) ==
    IF i < Len(paths) THEN "principal"
    ELSE IF failed THEN "exhausted" ELSE "found"

\* discoverServer, lines 78-88: where the loop goes after candidate i
loopControl(i, failed) ==
    IF ~failed THEN "found"
    ELSE IF i < Len(paths) THEN "principal" ELSE "exhausted"

\* a mutation of nextCandidate: the same candidate is tried again
nextCandidateAgain(i) == i

\* discoverServer, line 78: the range loop goes on with the next path of paths
nextCandidate(i) == i + 1

\* candidate idx failed with error e (lines 82-83), and what follows: the next
\* candidate, or the aggregate error that NewClient returns as it is (lines 88, 51-53)
candidateFailed(e) ==
    /\ errs' = appendError(errs, e)
    /\ principalPath' = <<>>
    /\ IF loopControl(idx, TRUE) = "principal"
       THEN /\ dpc' = "principal"
            /\ idx' = nextCandidate(idx)
            /\ UNCHANGED <<ncClient, ncErr>>
       ELSE /\ dpc' = "returned"
            /\ ncClient' = <<>>
            /\ ncErr' = WF11301(errs')
            /\ UNCHANGED idx

panicInNewClient ==
    /\ dpc' = "panic"
    /\ UNCHANGED <<idx, errs, principalPath, ncClient, ncErr>>

\* NewClient, lines 44-50, up to the first iteration of discoverServer's loop
NewClient ==
    /\ dpc = "start"
    /\ \E username \in Usernames :
         client' = [path |-> <<>>, emailAddress |-> username]
    /\ dpc' = "principal"
    /\ idx' = 1
    /\ errs' = <<>>
    /\ UNCHANGED <<principalPath, sent, replies, ncClient, ncErr>>
    /\ UNCHANGED callvars
    /\ UNCHANGED mvars
    /\ UNCHANGED others

\* findCalendarHomeSet, lines 92-100: the current-user-principal query of candidate idx
PropfindCurrentUserPrincipal ==
    /\ dpc = "principal"
    /\ \E reply \in DiscoveryReplies("CurrentUserPrincipal", Len(sent) + 1) :
         /\ sent' = Append(sent, Request(idx, "current-user-principal", paths[idx]))
         /\ replies' = Append(replies, reply)
         /\ IF reply.err # NoError
            THEN candidateFailed(reply.err)
            ELSE IF ~HasFirstPropStat(reply) \/ FirstProp(reply).CurrentUserPrincipal = <<>>
            THEN panicInNewClient
            ELSE LET u == QueryUnescape(FirstProp(reply).CurrentUserPrincipal[1].Href)
                 IN  IF u.err # NoError
                     THEN candidateFailed(u.err)
                     ELSE /\ dpc' = "homeset"
                          /\ principalPath' = u.val
                          /\ UNCHANGED <<idx, errs, ncClient, ncErr>>
    /\ UNCHANGED evars
    /\ UNCHANGED mvars
    /\ UNCHANGED others

\* findCalendarHomeSet, lines 102-106, discoverServer's return (line 85) and
\* NewClient, lines 51-65.  After a success the loop is left (loopControl says
\* "found"); the branch to the next candidate is taken by no success.
PropfindCalendarHomeSet ==
    /\ dpc = "homeset"
    /\ \E reply \in DiscoveryReplies("CalendarHomeSet", Len(sent) + 1) :
         /\ sent' = Append(sent, Request(idx, "calendar-home-set", principalPath))
         /\ replies' = Append(replies, reply)
         /\ IF reply.err # NoError
            THEN /\ candidateFailed(reply.err)
                 /\ UNCHANGED client
            ELSE IF ~HasFirstPropStat(reply)
            THEN panicInNewClient /\ UNCHANGED client
            ELSE IF loopControl(idx, FALSE) = "principal"
            THEN /\ dpc' = "principal"
                 /\ idx' = nextCandidate(idx)
                 /\ UNCHANGED <<errs, principalPath, ncClient, ncErr, client>>
            ELSE LET calendarHomeSet == FirstProp(reply).CalendarHomeSet
                 IN  IF calendarHomeSet = <<>>
                     THEN panicInNewClient /\ UNCHANGED client
                     ELSE LET u == QueryUnescape(calendarHomeSet[1].Href)
                          IN  /\ dpc' = "returned"
                              /\ UNCHANGED <<idx, errs, principalPath>>
                              /\ IF u.err # NoError
                                 THEN /\ ncClient' = <<>>
                                      /\ ncErr' = u.err
                                      /\ UNCHANGED client
                                 ELSE /\ client' = [client EXCEPT !.path = u.val]
                                      /\ ncClient' = <<client'>>
                                      /\ ncErr' = NoError
    /\ UNCHANGED callvars
    /\ UNCHANGED mvars
    /\ UNCHANGED others

InitIdle ==
    /\ epc = "idle"
    /\ calls = 0
    /\ client = [path |-> <<>>, emailAddress |-> ""]
    /\ query = <<>>
    /\ multistatus = <<>>
    /\ calendars = <<>>
    /\ cal = 0
    /\ calendarItems = <<>>
    /\ queries = <<>>
    /\ answers = <<>>
    /\ ceResult = <<>>
    /\ ceErr = NoError

InitUnmapped ==
    /\ mpc = "idle"
    /\ rawEvent = <<>>
    /\ parentCalendar = <<>>
    /\ item = <<>>
    /\ readout = <<>>

InitDiscover ==
    /\ dpc = "start"
    /\ idx = 0
    /\ errs = <<>>
    /\ principalPath = <<>>
    /\ sent = <<>>
    /\ replies = <<>>
    /\ ncClient = <<>>
    /\ ncErr = NoError
    /\ InitIdle
    /\ InitUnmapped
    /\ InitOthers

NextDiscover ==
    \/ NewClient
    \/ PropfindCurrentUserPrincipal
    \/ PropfindCalendarHomeSet

SpecDiscover == InitDiscover /\ [][NextDiscover]_vars

(***************************************************************************)
(* Raw events (components.Event) and calendar items.  Times are            *)
(* nanoseconds since the zero time (January 1, year 1, 00:00:00 UTC).      *)
(***************************************************************************)
Millisecond == 1000000

Second == 1000 * Millisecond

\* time.Time.Truncate: t rounded down to a multiple of d since the zero time
Truncate(t, d) == IF d <= 0 THEN t ELSE t - (t % d)

\* time.Time.IsZero
IsZero(t) == t = 0

\* convert.ParticipationStatusToMeetingResponseType: the fixed table of the
\* conversion package
ParticipationStatusToMeetingResponseType(status) ==
    CASE status = "ACCEPTED" -> "Accept"
      [] status = "DECLINED" -> "Decline"
      [] status = "TENTATIVE" -> "Tentative"
      [] status = "NEEDS-ACTION" -> "NoResponseReceived"
      [] OTHER -> "Unknown"

\* convert.EventAccessClassificationToSensitivity
EventAccessClassificationToSensitivity(class) ==
    CASE class = "PUBLIC" -> "Normal"
      [] class = "PRIVATE" -> "Private"
      [] class = "CONFIDENTIAL" -> "Confidential"
      [] OTHER -> "Unknown"

\* newEmailAddress
newEmailAddress(email) == [name |-> email.Name, address |-> email.Address]

\* a mutation of resolveOrganizer: a nil organizer becomes a non-nil, empty address
resolveOrganizerNeverNil(organizer) ==
    IF organizer = <<>> THEN <<[name |-> "", address |-> ""]>>
    ELSE <<newEmailAddress(organizer[1].Entry)>>

\* resolveOrganizer: nil for a nil organizer
resolveOrganizer(organizer) ==
    IF organizer = <<>> THEN <<>>
    ELSE <<newEmailAddress(organizer[1].Entry)>>

\* a mutation of resolveAttendees: one responseType variable for the whole loop,
\* so that every attendee points at the status converted last
resolveAttendeesShared(eventAttendees) ==
    [i \in 1..Len(eventAttendees) |->
        [emailAddress |-> newEmailAddress(eventAttendees[i].Entry),
         responseType |->
             ParticipationStatusToMeetingResponseType(
                 eventAttendees[Len(eventAttendees)].ParticipationStatus)]]

\* resolveAttendees: one attendee per raw attendee, in order
resolveAttendees(eventAttendees) ==
    [i \in 1..Len(eventAttendees) |->
        [emailAddress |-> newEmailAddress(eventAttendees[i].Entry),
         responseType |->
             ParticipationStatusToMeetingResponseType(eventAttendees[i].ParticipationStatus)]]

\* lower case of the modelled addresses
ToLower(a) ==
    CASE a = "A@x" -> "a@x"
      [] OTHER -> a

\* a mutation of findResponseType: addresses are compared ignoring case
findResponseTypeFold(emailAddress, attendees) ==
    IF \E i \in 1..Len(attendees) :
           ToLower(attendees[i].emailAddress.address) = ToLower(emailAddress)
    THEN LET first == CHOOSE i \in 1..Len(attendees) :
                 /\ ToLower(attendees[i].emailAddress.address) = ToLower(emailAddress)
                 /\ \A j \in 1..(i - 1) :
                        ToLower(attendees[j].emailAddress.address) # ToLower(emailAddress)
         IN  attendees[first].responseType
    ELSE "Unknown"

RECURSIVE findResponseTypeFrom(_, _, _)
findResponseTypeFrom(emailAddress, attendees, i) ==
    IF i > Len(attendees) THEN "Unknown"
    ELSE IF attendees[i].emailAddress.address = emailAddress
    THEN attendees[i].responseType
    ELSE findResponseTypeFrom(emailAddress, attendees, i + 1)

\* findResponseType: the response type of the first attendee with this address
findResponseType(emailAddress, attendees) == findResponseTypeFrom(emailAddress, attendees, 1)

\* newCalendarItem
newCalendarItem(event, calendar) ==
    LET attendees == resolveAttendees(event.Attendees)
    IN  [Event |-> event,
         calendar |-> calendar,
         responseType |-> findResponseType(calendar.emailAddress, attendees),
         organizer |-> resolveOrganizer(event.Organizer),
         attendees |-> attendees,
         sensitivity |-> EventAccessClassificationToSensitivity(event.AccessClassification)]

(***************************************************************************)
(* A properties.CanEncodeValue, as unsafeToString receives it: the nil     *)
(* interface, a nil pointer in a non-nil interface, or a value, whose      *)
(* EncodeICalValue returns a text or an error.                             *)
(***************************************************************************)
NilInterface == [kind |-> "nil", text |-> ""]

NilPointer == [kind |-> "nil pointer", text |-> ""]

Encodes(text) == [kind |-> "encodes", text |-> text]

FailsToEncode == [kind |-> "fails", text |-> ""]

\* reflect.ValueOf(value).IsNil()
IsNil(value) == value.kind = "nil pointer"

\* value.EncodeICalValue(), line 128: a method call through a nil interface or
\* on a nil pointer panics
EncodeICalValue(value) ==
    [panic |-> value.kind \in {"nil", "nil pointer"},
     err |-> value.kind = "fails",
     s |-> IF value.kind = "encodes" THEN value.text ELSE ""]

\* a mutation of unsafeToString: the nil pointer in a non-nil interface is not tested for
unsafeToStringInterfaceOnly(value) ==
    IF value = NilInterface THEN [panic |-> FALSE, val |-> ""]
    ELSE LET e == EncodeICalValue(value)
         IN  IF e.panic THEN [panic |-> TRUE, val |-> ""]
             ELSE IF e.err THEN [panic |-> FALSE, val |-> ""]
             ELSE [panic |-> FALSE, val |-> e.s]

\* unsafeToString, lines 123-134
unsafeToString(value) ==
    IF value = NilInterface \/ IsNil(value) THEN [panic |-> FALSE, val |-> ""]
    ELSE LET e == EncodeICalValue(value)
         IN  IF e.panic THEN [panic |-> TRUE, val |-> ""]
             ELSE IF e.err THEN [panic |-> FALSE, val |-> ""]
             ELSE [panic |-> FALSE, val |-> e.s]

\* calendarItem.URL, calendarItem.Location
URL(it) == unsafeToString(it.Event.Url)

Location(it) == unsafeToString(it.Event.Location)

\* calendarItem.Start, calendarItem.End
Start(it) == it.Event.DateStart

End(it) == it.Event.DateEnd

\* a mutation of IsAllDay: truncation to whole seconds
IsAllDaySecond(it) ==
    IsZero(Truncate(Start(it), Second)) /\ IsZero(Truncate(End(it), Second))

\* calendarItem.IsAllDay
IsAllDay(it) ==
    IsZero(Truncate(Start(it), Millisecond)) /\ IsZero(Truncate(End(it), Millisecond))

\* calendarItem.CreatedAt, calendarItem.LastModifiedAt
CreatedAt(it) == it.Event.Created

\* a mutation of LastModifiedAt: an absent last-modified field gives the zero time
LastModifiedAtZero(it) ==
    IF it.Event.LastModified = <<>> THEN 0 ELSE it.Event.LastModified[1]

LastModifiedAt(it) ==
    IF it.Event.LastModified = <<>> THEN CreatedAt(it) ELSE it.Event.LastModified[1]

\* calendarItem.CalendarID, CalendarDisplayName, TimeZone
CalendarID(it) == it.calendar.path

CalendarDisplayName(it) == it.calendar.displayName

TimeZone(it) == it.calendar.timeZone

Contact(name, address) == [Entry |-> [Name |-> name, Address |-> address]]

RawAttendee(name, address, status) ==
    [Entry |-> [Name |-> name, Address |-> address], ParticipationStatus |-> status]

RawEvent(uid, attendees, organizer, start, end, created, lastModified) ==
    [UID |-> uid, Attendees |-> attendees, Organizer |-> organizer,
     DateStart |-> start, DateEnd |-> end, Created |-> created,
     LastModified |-> lastModified, AccessClassification |-> "PUBLIC",
     Url |-> NilPointer, Location |-> NilPointer]

CalendarListEntry(path, emailAddress, displayName, timeZone) ==
    [path |-> path, emailAddress |-> emailAddress,
     displayName |-> displayName, timeZone |-> timeZone]

(***************************************************************************)
(* The mapping on its own: a raw event and its owning calendar are drawn   *)
(* from bounded sets and newCalendarItem is applied.                       *)
(***************************************************************************)
MaxAttendees == 2

RawAttendees ==
    { RawAttendee("Ann", "a@x", "ACCEPTED"),
      RawAttendee("Ann", "a@x", "DECLINED"),
      RawAttendee("a@x", "A@x", "TENTATIVE"),
      RawAttendee("Bob", "b@x", "NEEDS-ACTION"),
      RawAttendee("a@x", "b@x", "DELEGATED") }

RECURSIVE SeqsUpTo(_, _)
SeqsUpTo(S, n) ==
    IF n = 0 THEN {<<>>}
    ELSE LET shorter == SeqsUpTo(S, n - 1)
         IN  shorter \cup {Append(q, x) : q \in {r \in shorter : Len(r) = n - 1}, x \in S}

RawOrganizers == {<<>>, <<Contact("Ann", "a@x")>>, <<Contact("Bob", "b@x")>>}

\* the zero time, times within its first second, and later times
Times == {0, 1, Millisecond - 1, Millisecond, Second - 1, Second}

CreatedTimes == {Second, Second + 1}

LastModifiedTimes == {<<>>, <<Second>>, <<2 * Second>>}

OwningCalendars ==
    { CalendarListEntry(<<"/", "c", "/", "1">>, "a@x", "Work", "Europe/Oslo"),
      CalendarListEntry(<<"/", "p">>, "c@x", "Home", "") }

InitConstructed ==
    /\ dpc = "returned"
    /\ idx = 0
    /\ errs = <<>>
    /\ principalPath = <<>>
    /\ sent = <<>>
    /\ replies = <<>>
    /\ ncClient = <<>>
    /\ ncErr = NoError

InitMap ==
    /\ mpc = "raw"
    /\ \E attendees \in SeqsUpTo(RawAttendees, MaxAttendees),
          organizer \in RawOrganizers,
          start \in Times, end \in Times,
          created \in CreatedTimes, lastModified \in LastModifiedTimes :
         rawEvent = <<RawEvent("uid-1", attendees, organizer, start, end, created, lastModified)>>
    /\ \E calendar \in OwningCalendars : parentCalendar = <<calendar>>
    /\ item = <<>>
    /\ readout = <<>>
    /\ InitConstructed
    /\ InitIdle
    /\ InitOthers

\* one call of newCalendarItem
MapEvent ==
    /\ mpc = "raw"
    /\ item' = <<newCalendarItem(rawEvent[1], parentCalendar[1])>>
    /\ mpc' = "mapped"
    /\ UNCHANGED <<rawEvent, parentCalendar, readout>>
    /\ UNCHANGED dvars
    /\ UNCHANGED evars
    /\ UNCHANGED others

NextMap == MapEvent

SpecMap == InitMap /\ [][NextMap]_vars

(***************************************************************************)
(* The mapping and the accessors of the mapped item, for raw events whose  *)
(* optional fields are present or absent in every combination.             *)
(***************************************************************************)
OptionalValues == {NilInterface, NilPointer, Encodes("text"), FailsToEncode}

InitRead ==
    /\ mpc = "raw"
    /\ \E attendees \in {<<>>, <<RawAttendee("Ann", "a@x", "ACCEPTED")>>},
          organizer \in RawOrganizers,
          lastModified \in {<<>>, <<2 * Second>>},
          url \in OptionalValues, location \in OptionalValues :
         rawEvent = <<[RawEvent("uid-1", attendees, organizer, 0, Second, Second, lastModified)
                          EXCEPT !.Url = url, !.Location = location]>>
    /\ \E calendar \in OwningCalendars : parentCalendar = <<calendar>>
    /\ item = <<>>
    /\ readout = <<>>
    /\ InitConstructed
    /\ InitIdle
    /\ InitOthers

\* every accessor of the mapped item is called (lines 40-121); a panic in one
\* of them leaves no values
ReadItem ==
    /\ mpc = "mapped"
    /\ LET it == item[1]
       IN  IF URL(it).panic \/ Location(it).panic
           THEN /\ mpc' = "panic"
                /\ UNCHANGED readout
           ELSE /\ mpc' = "read"
                /\ readout' = <<[UID |-> it.Event.UID,
                                 URL |-> URL(it).val,
                                 Start |-> Start(it),
                                 End |-> End(it),
                                 TimeZone |-> TimeZone(it),
                                 Location |-> Location(it).val,
                                 ResponseType |-> it.responseType,
                                 Organizer |-> it.organizer,
                                 Attendees |-> it.attendees,
                                 IsAllDay |-> IsAllDay(it),
                                 Sensitivity |-> it.sensitivity,
                                 CreatedAt |-> CreatedAt(it),
                                 LastModifiedAt |-> LastModifiedAt(it),
                                 CalendarID |-> CalendarID(it),
                                 CalendarDisplayName |-> CalendarDisplayName(it)]>>
    /\ UNCHANGED <<rawEvent, parentCalendar, item>>
    /\ UNCHANGED dvars
    /\ UNCHANGED evars
    /\ UNCHANGED others

NextRead ==
    \/ MapEvent
    \/ ReadItem

SpecRead == InitRead /\ [][NextRead]_vars

(***************************************************************************)
(* client.CalendarEvents and client.findCalendars.                         *)
(***************************************************************************)
calendarType == "VEVENT"

MaxResponses == 2

MaxEvents == 2

\* the (startUTC, endUTC) windows CalendarEvents is called with
Windows == {[start |-> 0, end |-> Second], [start |-> Second, end |-> 2 * Second]}

ComponentSet(names) == <<[Components |-> [i \in 1..Len(names) |-> [Name |-> names[i]]]]>>

CalendarProp(displayName, timeZone, componentSet) ==
    [EmptyProp EXCEPT !.DisplayName = displayName,
                      !.CalendarTimezone = timeZone,
                      !.SupportedCalendarComponentSet = componentSet]

\* the responses a server may list under the calendar home
EnumerationResponses ==
    { Response(<<"/", "c", "%", "2", "F", "1">>,
               <<PropStat(httpOK, CalendarProp("Work", <<[Id |-> "Europe/Oslo"]>>,
                                               ComponentSet(<<"VEVENT">>)))>>),
      Response(<<"/", "p">>,
               <<PropStat(httpOK, CalendarProp("Home", <<>>,
                                               ComponentSet(<<"VTODO", "VEVENT", "VEVENT">>)))>>),
      Response(<<"/", "%", "z", "z">>,
               <<PropStat(httpOK, CalendarProp("Tasks", <<>>, ComponentSet(<<"VTODO">>)))>>),
      Response(<<"/", "a", "+", "b">>,
               <<PropStat(httpOK, CalendarProp("Plain", <<>>, <<>>))>>),
      Response(<<"/", "u", "%", "4", "0", "x">>,
               <<PropStat("HTTP/1.1 404 Not Found",
                          CalendarProp("Gone", <<>>, ComponentSet(<<"VEVENT">>)))>>),
      Response(<<"/", "%", "z", "z">>,
               <<PropStat(httpOK, CalendarProp("Broken", <<>>, ComponentSet(<<"VEVENT">>)))>>),
      Response(<<"/", "p">>, <<>>) }

EnumerationReplies(n) ==
    {Reply(TransportError(n), <<>>)}
    \cup {Reply(NoError, b) : b \in SeqsUpTo(EnumerationResponses, MaxResponses)}

\* the raw events a server may return to an event query
QueriedEvents ==
    { RawEvent("uid-1", <<RawAttendee("Ann", "a@x", "ACCEPTED")>>, <<>>, 0, 0, Second, <<>>),
      RawEvent("uid-2", <<>>, <<Contact("Ann", "a@x")>>, Second, 2 * Second, Second, <<Second + 1>>) }

EventReply(err, events) == [err |-> err, events |-> events]

EventReplies(n) ==
    {EventReply(TransportError(n), <<>>)}
    \cup {EventReply(NoError, evs) : evs \in SeqsUpTo(QueriedEvents, MaxEvents)}

HTTPRequest(method, path, q) == [method |-> method, path |-> path, query |-> q]

\* extractTimeZoneID
extractTimeZoneID(timeZone) == IF timeZone = <<>> THEN "" ELSE timeZone[1].Id

\* a mutation of selected: the per-item status is not looked at
selectedAnyStatus(propertyStatus) ==
    /\ propertyStatus.Prop.SupportedCalendarComponentSet # <<>>
    /\ \E i \in 1..Len(propertyStatus.Prop.SupportedCalendarComponentSet[1].Components) :
           propertyStatus.Prop.SupportedCalendarComponentSet[1].Components[i].Name = calendarType

\* findCalendars, lines 68-70: the status is 200 OK and a component is VEVENT
selected(propertyStatus) ==
    /\ propertyStatus.Status = httpOK
    /\ propertyStatus.Prop.SupportedCalendarComponentSet # <<>>
    /\ \E i \in 1..Len(propertyStatus.Prop.SupportedCalendarComponentSet[1].Components) :
           propertyStatus.Prop.SupportedCalendarComponentSet[1].Components[i].Name = calendarType

\* a mutation of appended: the loop over the components goes on after a match
appendedPerComponent(components, entry) ==
    LET matches == {i \in 1..Len(components) : components[i].Name = calendarType}
    IN  [k \in 1..Cardinality(matches) |-> entry]

\* findCalendars, lines 69-85: the entry is appended at the first component that
\* is VEVENT, and the break leaves the loop over the components
appended(components, entry) ==
    IF \E i \in 1..Len(components) : components[i].Name = calendarType
    THEN <<entry>>
    ELSE <<>>

\* a mutation of unescapeFailed: the calendars found so far are returned
unescapeFailedKeepsFound(err, found) == [panic |-> FALSE, err |-> NoError, calendars |-> found]

\* findCalendars, lines 72-75: an href that cannot be unescaped ends the loop
\* with no list and the error of url.QueryUnescape
unescapeFailed(err, found) == [panic |-> FALSE, err |-> err, calendars |-> <<>>]

\* findCalendars, lines 65-89: the loop over the responses from the i-th on, with
\* the calendars collected so far; it ends in a panic (a response without
\* propstat), an error (an href that cannot be unescaped) or the list
RECURSIVE scanResponses(_, _, _, _)
scanResponses(responses, i, emailAddress, found) ==
    IF i > Len(responses)
    THEN [panic |-> FALSE, err |-> NoError, calendars |-> found]
    ELSE IF Len(responses[i].PropStats) = 0
    THEN [panic |-> TRUE, err |-> NoError, calendars |-> <<>>]
    ELSE IF ~selected(responses[i].PropStats[1])
    THEN scanResponses(responses, i + 1, emailAddress, found)
    ELSE LET u == QueryUnescape(responses[i].Href)
             prop == responses[i].PropStats[1].Prop
         IN  IF u.err # NoError
             THEN unescapeFailed(u.err, found)
             ELSE scanResponses(responses, i + 1, emailAddress,
                      found \o appended(prop.SupportedCalendarComponentSet[1].Components,
                                        CalendarListEntry(u.val, emailAddress, prop.DisplayName,
                                                          extractTimeZoneID(prop.CalendarTimezone))))

\* a mutation of afterQuery: a failed query skips its calendar
afterQueryBestEffort(failed, k, n) == IF k < n THEN "next" ELSE "return"

\* CalendarEvents, lines 45-56: what follows the query of the k-th of n calendars
afterQuery(failed, k, n) ==
    IF failed THEN "abort"
    ELSE IF k < n THEN "next" ELSE "return"

\* a mutation of appendItems: the newest calendar's items go first
appendItemsFirst(items, events, calendar) ==
    [j \in 1..Len(events) |-> newCalendarItem(events[j], calendar)] \o items

\* a mutation of appendItems: every event is given the calendar of the first item
appendItemsFirstCalendar(items, events, calendar) ==
    items \o [j \in 1..Len(events) |->
                 newCalendarItem(events[j], IF items = <<>> THEN calendar ELSE items[1].calendar)]

\* CalendarEvents, lines 51-53: the events of one calendar are mapped and appended
appendItems(items, events, calendar) ==
    items \o [j \in 1..Len(events) |-> newCalendarItem(events[j], calendar)]

panicInCalendarEvents ==
    /\ epc' = "panic"
    /\ UNCHANGED <<calendars, cal, calendarItems, ceResult, ceErr>>

returnFromCalendarEvents(result, err) ==
    /\ epc' = "returned"
    /\ ceResult' = result
    /\ ceErr' = err

RangeError == [type |-> "range", req |-> 0, text |-> <<>>, causes |-> <<>>]

\* how many times CalendarEvents is called on one client
MaxCalls == 2

\* a mutation of receiver: the path of the first listed collection is stored in the client
receiverRebound(c, ms) ==
    IF ms # <<>> /\ Len(ms[1].Responses) > 0
    THEN [c EXCEPT !.path = ms[1].Responses[1].Href]
    ELSE c

\* findCalendars and CalendarEvents read their receiver and assign none of its
\* fields (calendar.go:39-90; path at line 71 is a new local variable)
receiver(c, ms) == c

\* a mutation of rangeQuery: the calendars after the first are queried from the
\* end of the window on
rangeQueryRebuilt(q, k) ==
    IF k > 1 THEN <<[start |-> q[1].end, end |-> q[1].end]>> ELSE q

\* CalendarEvents, lines 34 and 47: the query built before the loop is the one
\* handed to QueryEvents for the k-th calendar
rangeQuery(q, k) == q

\* CalendarEvents, lines 33-37: the range query is built, or the call returns its error
CalendarEvents ==
    /\ epc \in {"ready", "returned"}
    /\ calls < MaxCalls
    /\ calls' = calls + 1
    /\ \E window \in Windows, built \in BOOLEAN :
         IF built
         THEN /\ epc' = "enumerate"
              /\ query' = <<window>>
              /\ ceResult' = <<>>
              /\ ceErr' = NoError
         ELSE /\ returnFromCalendarEvents(<<>>, RangeError)
              /\ query' = <<>>
    \* the locals of the call, and the log of its requests, start empty
    /\ multistatus' = <<>>
    /\ calendars' = <<>>
    /\ cal' = 0
    /\ calendarItems' = <<>>
    /\ queries' = <<>>
    /\ answers' = <<>>
    /\ UNCHANGED client
    /\ UNCHANGED dvars
    /\ UNCHANGED mvars
    /\ UNCHANGED others

\* findCalendars, lines 59-90, and CalendarEvents, lines 39-44 (and line 56 when
\* there is no calendar to query)
findCalendars ==
    /\ epc = "enumerate"
    /\ \E reply \in EnumerationReplies(Len(queries) + 1) :
         /\ queries' = Append(queries, HTTPRequest("PROPFIND", client.path, <<>>))
         /\ multistatus' = <<reply>>
         /\ IF reply.err # NoError
            THEN /\ returnFromCalendarEvents(<<>>, reply.err)
                 /\ UNCHANGED <<calendars, cal, calendarItems>>
            ELSE LET scan == scanResponses(reply.Responses, 1, client.emailAddress, <<>>)
                 IN  IF scan.panic
                     THEN panicInCalendarEvents
                     ELSE IF scan.err # NoError
                     THEN /\ returnFromCalendarEvents(<<>>, scan.err)
                          /\ UNCHANGED <<calendars, cal, calendarItems>>
                     ELSE /\ calendars' = scan.calendars
                          /\ calendarItems' = <<>>
                          /\ IF Len(scan.calendars) = 0
                             THEN /\ returnFromCalendarEvents(<<calendarItems'>>, NoError)
                                  /\ UNCHANGED cal
                             ELSE /\ epc' = "query"
                                  /\ cal' = 1
                                  /\ UNCHANGED <<ceResult, ceErr>>
    /\ client' = receiver(client, multistatus')
    /\ UNCHANGED <<calls, query, answers>>
    /\ UNCHANGED dvars
    /\ UNCHANGED mvars
    /\ UNCHANGED others

\* CalendarEvents, lines 45-56: the event query of calendar cal
QueryEvents ==
    /\ epc = "query"
    /\ \E reply \in EventReplies(Len(queries) + 1) :
         /\ queries' = Append(queries, HTTPRequest("REPORT", calendars[cal].path, rangeQuery(query, cal)))
         /\ answers' = Append(answers, reply)
         /\ LET then == afterQuery(reply.err # NoError, cal, Len(calendars))
            IN  /\ calendarItems' =
                       IF reply.err # NoError THEN calendarItems
                       ELSE appendItems(calendarItems, reply.events, calendars[cal])
                /\ CASE then = "abort" ->
                          /\ returnFromCalendarEvents(<<>>, reply.err)
                          /\ UNCHANGED cal
                     [] then = "next" ->
                          /\ epc' = "query"
                          /\ cal' = cal + 1
                          /\ UNCHANGED <<ceResult, ceErr>>
                     [] then = "return" ->
                          /\ returnFromCalendarEvents(<<calendarItems'>>, NoError)
                          /\ UNCHANGED cal
    /\ UNCHANGED <<client, calls, query, multistatus, calendars>>
    /\ UNCHANGED dvars
    /\ UNCHANGED mvars
    /\ UNCHANGED others

Clients ==
    { [path |-> <<"/", "u", "@", "x">>, emailAddress |-> "a@x"],
      [path |-> <<"/", "v">>, emailAddress |-> "c@x"] }

InitEvents ==
    /\ epc = "ready"
    /\ calls = 0
    /\ client \in Clients
    /\ query = <<>>
    /\ multistatus = <<>>
    /\ calendars = <<>>
    /\ cal = 0
    /\ calendarItems = <<>>
    /\ queries = <<>>
    /\ answers = <<>>
    /\ ceResult = <<>>
    /\ ceErr = NoError
    /\ InitConstructed
    /\ InitUnmapped
    /\ InitOthers

NextEvents ==
    \/ CalendarEvents
    \/ findCalendars
    \/ QueryEvents

SpecEvents == InitEvents /\ [][NextEvents]_vars

\* one NewClient call, or calls of CalendarEvents on a constructed client
InitRequests == InitDiscover \/ InitEvents

NextRequests ==
    \/ NewClient
    \/ PropfindCurrentUserPrincipal
    \/ PropfindCalendarHomeSet
    \/ CalendarEvents
    \/ findCalendars
    \/ QueryEvents

SpecRequests == InitRequests /\ [][NextRequests]_vars

(***************************************************************************)
(* The consumer (main package): consumeMessages starts one goroutine per   *)
(* message, each running processMessage, syncAccount, createCalendarClient *)
(* and caldav.NewClient for its account.  A run is a record of that        *)
(* goroutine's locals; the steps of discovery are those of NewClient       *)
(* above, as a function of the run and of the server's reply.              *)
(***************************************************************************)
\* the replies a server sends to a discovery query of a concurrent run
ConsumerReplies(name, n) ==
    { Reply(TransportError(n), <<>>),
      Reply(NoError, <<Response(<<"/">>, <<PropStat(httpOK, EmptyProp)>>)>>),
      Reply(NoError, <<Response(<<"/">>,
                <<PropStat(httpOK, [EmptyProp EXCEPT ![name] = <<[Href |-> <<"/", "p">>]>>])>>)>>) }

\* discoverServer, lines 82-88, and NewClient, lines 51-53, on a run
runFailed(r, e) ==
    LET es == appendError(r.errs, e)
    IN  IF loopControl(r.idx, TRUE) = "principal"
        THEN [r EXCEPT !.errs = es, !.principalPath = <<>>,
                       !.pc = "principal", !.idx = nextCandidate(r.idx)]
        ELSE [r EXCEPT !.errs = es, !.principalPath = <<>>,
                       !.pc = "failed", !.ncErr = WF11301(es)]

\* findCalendarHomeSet, lines 92-106, and NewClient, lines 51-65, on a run: the
\* query the run is at is sent and answered by reply
discoverStep(r, reply) ==
    LET q == IF r.pc = "principal"
             THEN Request(r.idx, "current-user-principal", paths[r.idx])
             ELSE Request(r.idx, "calendar-home-set", r.principalPath)
        s == [r EXCEPT !.sent = Append(@, q), !.received = Append(@, reply)]
    IN  IF reply.err # NoError THEN runFailed(s, reply.err)
        ELSE IF r.pc = "principal"
        THEN IF ~HasFirstPropStat(reply) \/ FirstProp(reply).CurrentUserPrincipal = <<>>
             THEN [s EXCEPT !.pc = "panic"]
             ELSE LET u == QueryUnescape(FirstProp(reply).CurrentUserPrincipal[1].Href)
                  IN  IF u.err # NoError THEN runFailed(s, u.err)
                      ELSE [s EXCEPT !.pc = "homeset", !.principalPath = u.val]
        ELSE IF ~HasFirstPropStat(reply) \/ FirstProp(reply).CalendarHomeSet = <<>>
             THEN [s EXCEPT !.pc = "panic"]
             ELSE LET u == QueryUnescape(FirstProp(reply).CalendarHomeSet[1].Href)
                  IN  IF u.err # NoError
                      THEN [s EXCEPT !.pc = "failed", !.ncErr = u.err]
                      ELSE [s EXCEPT !.pc = "events", !.path = u.val]

\* log.EnterTestMode, called by processMessage (lines 76-86) for a debug user
EnterTestMode(a, l) == IF a \in debugUsers THEN "test" ELSE l

\* log.ExitTestMode, deferred by processMessage (lines 77, 83) for a debug user
ExitTestMode(a, l) == IF a \in debugUsers THEN "production" ELSE l

\* consumeMessages, line 47, and processMessage, lines 62-89: the goroutine
\* of account a starts, and its sync reaches NewClient
processMessage(a) ==
    /\ ~crashed
    /\ runs[a].pc = "queued"
    /\ runs' = [runs EXCEPT ![a] = [@ EXCEPT !.pc = "principal", !.idx = 1]]
    /\ logger' = EnterTestMode(a, logger)
    /\ UNCHANGED <<crashed, debugUsers>>
    /\ UNCHANGED <<dvars, evars, mvars, tvars, svars, qvars>>

\* createCalendarClient, line 154: one query of caldav.NewClient for account a.
\* A panic is recovered by no goroutine (logBeforeExiting is deferred by main
\* alone), so it ends the process; an error ends syncAccount (lines 98-101) and
\* processMessage, whose deferred calls run.
createCalendarClient(a) ==
    /\ ~crashed
    /\ runs[a].pc \in {"principal", "homeset"}
    /\ \E reply \in ConsumerReplies(IF runs[a].pc = "principal" THEN "CurrentUserPrincipal"
                                    ELSE "CalendarHomeSet", Len(runs[a].sent) + 1) :
         LET r == discoverStep(runs[a], reply)
         IN  /\ runs' = [runs EXCEPT ![a] =
                            IF r.pc = "failed"
                            THEN [r EXCEPT !.pc = "returned", !.result = "error"]
                            ELSE r]
             /\ crashed' = (r.pc = "panic")
             /\ logger' = IF r.pc \in {"failed", "panic"} THEN ExitTestMode(a, logger)
                          ELSE logger
    /\ UNCHANGED debugUsers
    /\ UNCHANGED <<dvars, evars, mvars, tvars, svars, qvars>>

\* syncAccount, lines 103-119: CalendarEvents and the store of its events, with
\* their outcome, and the return of processMessage
syncAccount(a) ==
    /\ ~crashed
    /\ runs[a].pc = "events"
    /\ \E outcome \in {"synced", "error"} :
         runs' = [runs EXCEPT ![a] = [@ EXCEPT !.pc = "returned", !.result = outcome]]
    /\ logger' = ExitTestMode(a, logger)
    /\ UNCHANGED <<crashed, debugUsers>>
    /\ UNCHANGED <<dvars, evars, mvars, tvars, svars, qvars>>

InitConsumer ==
    /\ runs = [a \in Accounts |-> QueuedRun]
    /\ crashed = FALSE
    /\ logger = "production"
    /\ debugUsers \in {{}, {"a@x"}, Accounts}
    /\ InitTransportIdle
    /\ InitSyncIdle
    /\ InitQueueIdle
    /\ InitConstructed
    /\ InitIdle
    /\ InitUnmapped

NextConsumer ==
    \/ \E a \in Accounts : processMessage(a)
    \/ \E a \in Accounts : createCalendarClient(a)
    \/ \E a \in Accounts : syncAccount(a)

SpecConsumer == InitConsumer /\ [][NextConsumer]_vars

(***************************************************************************)
(* processMessage for one message: the body is parsed and the accounts of  *)
(* the user are synced by syncAccount, each in four calls: the client is   *)
(* created, CalendarEvents is called, the user's stored events are deleted *)
(* and the new ones are put.  The store is the user's list of events:      *)
(* DeleteUserEvents empties it, PutEvents fills it, and a call that        *)
(* returns an error leaves it as it was.                                   *)
(***************************************************************************)
MaxAccounts == 2

SyncError(op, k) == [type |-> op, req |-> k, text |-> <<>>, causes |-> <<>>]

StoredEvent(account, uid) == [account |-> account, uid |-> uid]

\* what the store holds for the user before the message
StoredBefore == {<<>>, <<StoredEvent("a@x", "uid-0")>>}

\* what CalendarEvents returns for an account
FetchedEvents(account) == {<<>>, <<StoredEvent(account, "uid-1")>>}

SyncCall(k, op, outcome) == [acct |-> k, op |-> op, outcome |-> outcome]

\* parse.DeleteUserEvents: the user has no stored events after a success
DeleteUserEvents(events, ok) == IF ok THEN <<>> ELSE events

\* parse.PutEvents: the given events are the user's after a success
PutEvents(events, new, ok) == IF ok THEN events \o new ELSE events

\* a mutation of syncThen: syncAccount goes on after an error
syncThenGoesOn(failed, then) == then

\* syncAccount, lines 99-116: each error is returned at once
syncThen(failed, then) == IF failed THEN "return" ELSE then

\* logNonNilError, lines 173-177
logNonNilError(log, k, err) ==
    IF err # NoError THEN Append(log, [acct |-> k, err |-> err]) ELSE log

\* processMessage, lines 81-92: the error of syncAccount is logged, and the
\* loop goes on with the next account or processMessage returns nil
accountSynced(err) ==
    /\ logged' = logNonNilError(logged, acct, err)
    /\ IF acct < Len(message.accounts)
       THEN /\ spc' = "client"
            /\ acct' = acct + 1
            /\ UNCHANGED pmResult
       ELSE /\ spc' = "returned"
            /\ pmResult' = <<NoError>>
            /\ UNCHANGED acct

\* a step of syncAccount with the given outcome; `then` is the next call
syncStep(op, outcome, then) ==
    /\ syncLog' = Append(syncLog, SyncCall(acct, op, outcome))
    /\ IF outcome = "panic"
       THEN /\ spc' = "panic"
            /\ UNCHANGED <<acct, logged, pmResult>>
       ELSE IF syncThen(outcome = "error", then) = "return"
       THEN accountSynced(IF outcome = "error" THEN SyncError(op, acct) ELSE NoError)
       ELSE /\ spc' = then
            /\ UNCHANGED <<acct, logged, pmResult>>

\* processMessage, lines 62-75: the two json.Unmarshal calls
parseBody ==
    /\ spc = "parse"
    /\ IF ~message.parsed
       THEN /\ spc' = "returned"
            /\ pmResult' = <<SyncError("parse", 0)>>
            /\ UNCHANGED acct
       ELSE IF message.accounts = <<>>
       THEN /\ spc' = "returned"
            /\ pmResult' = <<NoError>>
            /\ UNCHANGED acct
       ELSE /\ spc' = "client"
            /\ acct' = 1
            /\ UNCHANGED pmResult
    /\ UNCHANGED <<message, stored, fetched, logged, syncLog>>
    /\ UNCHANGED <<dvars, evars, mvars, tvars, gvars, qvars>>

\* syncAccount, lines 98-101: createCalendarClient returns a client or an
\* error, or panics (NewClient on a reply that lacks the property)
syncCreateClient ==
    /\ spc = "client"
    /\ \E outcome \in {"ok", "error", "panic"} : syncStep("client", outcome, "fetch")
    /\ UNCHANGED <<message, stored, fetched>>
    /\ UNCHANGED <<dvars, evars, mvars, tvars, gvars, qvars>>

\* syncAccount, lines 103-106: client.CalendarEvents
syncCalendarEvents ==
    /\ spc = "fetch"
    /\ \E outcome \in {"ok", "error", "panic"} :
         /\ syncStep("fetch", outcome, "delete")
         /\ IF outcome = "ok"
            THEN \E events \in FetchedEvents(message.accounts[acct]) : fetched' = events
            ELSE fetched' = <<>>
    /\ UNCHANGED <<message, stored>>
    /\ UNCHANGED <<dvars, evars, mvars, tvars, gvars, qvars>>

\* syncAccount, lines 108-111: parse.DeleteUserEvents
syncDeleteUserEvents ==
    /\ spc = "delete"
    /\ \E outcome \in {"ok", "error"} :
         /\ syncStep("delete", outcome, "put")
         /\ stored' = DeleteUserEvents(stored, outcome = "ok")
    /\ UNCHANGED <<message, fetched>>
    /\ UNCHANGED <<dvars, evars, mvars, tvars, gvars, qvars>>

\* syncAccount, lines 113-119: parse.PutEvents, and the return of syncAccount
syncPutEvents ==
    /\ spc = "put"
    /\ \E outcome \in {"ok", "error"} :
         /\ syncStep("put", outcome, "return")
         /\ stored' = PutEvents(stored, fetched, outcome = "ok")
    /\ UNCHANGED <<message, fetched>>
    /\ UNCHANGED <<dvars, evars, mvars, tvars, gvars, qvars>>

InitSync ==
    /\ spc = "parse"
    /\ \E parsed \in BOOLEAN, accounts \in SeqsUpTo(Accounts, MaxAccounts) :
         message = [parsed |-> parsed, accounts |-> accounts]
    /\ acct = 0
    /\ stored \in StoredBefore
    /\ fetched = <<>>
    /\ logged = <<>>
    /\ pmResult = <<>>
    /\ syncLog = <<>>
    /\ InitTransportIdle
    /\ InitConsumerIdle
    /\ InitQueueIdle
    /\ InitConstructed
    /\ InitIdle
    /\ InitUnmapped

NextSync ==
    \/ parseBody
    \/ syncCreateClient
    \/ syncCalendarEvents
    \/ syncDeleteUserEvents
    \/ syncPutEvents

SpecSync == InitSync /\ [][NextSync]_vars

(***************************************************************************)
(* consumeMessages and the queue.  The queue holds a message until a       *)
(* delete of it succeeds and may deliver it again as long as it holds it.  *)
(***************************************************************************)
\* how often the queue delivers one message
MaxDeliveries == 2

\* the batches the queue may deliver: the messages it holds, in some order
Batches(held) ==
    {b \in SeqsUpTo(held, Cardinality(held)) :
        /\ Len(b) > 0
        /\ \A i, j \in 1..Len(b) : i # j => b[i] # b[j]}

InBatch(b) == {b[i] : i \in 1..Len(b)}

\* a mutation of startRegardless: a batch whose delete failed is not processed
startOnlyIfDeleted(deleteFailed) == ~deleteFailed

\* deleteMessages, line 59, and consumeMessages, lines 44-48: the error of the
\* delete is logged and the messages are processed whether it failed or not
startRegardless(deleteFailed) == TRUE

\* queue.Receive and consumeMessages, lines 42-43: a batch arrives
Receive ==
    /\ qpc = "receive"
    /\ \E b \in Batches({m \in inQueue : deliveries[m] < MaxDeliveries}) :
         /\ batch' = b
         /\ deliveries' = [m \in Messages |->
                              IF m \in InBatch(b) THEN deliveries[m] + 1 ELSE deliveries[m]]
    /\ qpc' = "delete"
    /\ next' = 0
    /\ UNCHANGED <<inQueue, attempts, failedDeletes, processing>>
    /\ UNCHANGED <<dvars, evars, mvars, tvars, gvars, svars>>

\* deleteMessages, lines 52-60, and queue.DeleteMessages, lines 276-293: one
\* DeleteMessageBatch for the handles of the batch; the messages in `deleted`
\* are deleted, and an error is returned unless these are all
deleteMessages ==
    /\ qpc = "delete"
    /\ \E deleted \in SUBSET InBatch(batch) :
         /\ inQueue' = inQueue \ deleted
         /\ failedDeletes' = failedDeletes \cup (InBatch(batch) \ deleted)
         /\ IF startRegardless(deleted # InBatch(batch))
            THEN /\ qpc' = "start"
                 /\ next' = 1
                 /\ UNCHANGED batch
            ELSE /\ qpc' = "receive"
                 /\ next' = 0
                 /\ batch' = <<>>
    /\ attempts' = [m \in Messages |->
                       IF m \in InBatch(batch) THEN attempts[m] + 1 ELSE attempts[m]]
    /\ UNCHANGED <<deliveries, processing>>
    /\ UNCHANGED <<dvars, evars, mvars, tvars, gvars, svars>>

\* consumeMessages, lines 46-48: the goroutine of the next message of the batch
\* is started
startProcessing ==
    /\ qpc = "start"
    /\ processing' = [processing EXCEPT ![batch[next]].started = @ + 1]
    /\ IF next < Len(batch)
       THEN /\ next' = next + 1
            /\ UNCHANGED <<qpc, batch>>
       ELSE /\ qpc' = "receive"
            /\ next' = 0
            /\ batch' = <<>>
    /\ UNCHANGED <<inQueue, deliveries, attempts, failedDeletes>>
    /\ UNCHANGED <<dvars, evars, mvars, tvars, gvars, svars>>

\* a goroutine of message m ends: processMessage returned nil or an error, which
\* logNonNilError logs (line 47), or it panicked, which ends the process
finishProcessing(m) ==
    /\ qpc # "crashed"
    /\ processing[m].started > processing[m].done + processing[m].failed
    /\ \E outcome \in {"done", "failed", "panic"} :
         /\ processing' = [processing EXCEPT
                              ![m].done = IF outcome = "done" THEN @ + 1 ELSE @,
                              ![m].failed = IF outcome = "done" THEN @ ELSE @ + 1]
         /\ qpc' = IF outcome = "panic" THEN "crashed" ELSE qpc
    /\ UNCHANGED <<inQueue, batch, next, deliveries, attempts, failedDeletes>>
    /\ UNCHANGED <<dvars, evars, mvars, tvars, gvars, svars>>

InitQueue ==
    /\ qpc = "receive"
    /\ inQueue = Messages
    /\ batch = <<>>
    /\ next = 0
    /\ deliveries = [m \in Messages |-> 0]
    /\ attempts = [m \in Messages |-> 0]
    /\ failedDeletes = {}
    /\ processing = [m \in Messages |-> NotStarted]
    /\ InitTransportIdle
    /\ InitConsumerIdle
    /\ InitSyncIdle
    /\ InitConstructed
    /\ InitIdle
    /\ InitUnmapped

NextQueue ==
    \/ Receive
    \/ deleteMessages
    \/ startProcessing
    \/ \E m \in Messages : finishProcessing(m)

SpecQueue == InitQueue /\ [][NextQueue]_vars

SpecTransportInit ==
    /\ InitTransport
    /\ InitConstructed
    /\ InitIdle
    /\ InitUnmapped
    /\ InitConsumerIdle
    /\ InitSyncIdle
    /\ InitQueueIdle

NextTransport ==
    \/ BasicAuthRoundTrip /\ UNCHANGED <<dvars, evars, mvars, gvars, svars, qvars>>
    \/ RoundTrip /\ UNCHANGED <<dvars, evars, mvars, gvars, svars, qvars>>

SpecTransport == SpecTransportInit /\ [][NextTransport]_vars

(***************************************************************************)
(* Reading the request log.  These definitions describe the replies, not   *)
(* the code: whether an href can be unescaped is decided here by looking   *)
(* for a "%" that two hex digits do not follow, and the decoded form of    *)
(* each modelled href is written out.                                      *)
(***************************************************************************)
BadAt(h, k) == h[k] = "%" /\ (k + 2 > Len(h) \/ ~ishex(h[k + 1]) \/ ~ishex(h[k + 2]))

BadHref(h) == \E k \in 1..Len(h) : BadAt(h, k)

FirstBad(h) == CHOOSE k \in 1..Len(h) : BadAt(h, k) /\ \A j \in 1..(k - 1) : ~BadAt(h, j)

BadEscape(h) == SubSeq(h, FirstBad(h), Min(FirstBad(h) + 2, Len(h)))

Decoded(h) ==
    CASE h = <<"/", "p">> -> <<"/", "p">>
      [] h = <<"/", "u", "%", "4", "0", "x">> -> <<"/", "u", "@", "x">>
      [] h = <<"/", "a", "+", "b">> -> <<"/", "a", " ", "b">>
      [] h = <<"/", "c", "%", "2", "F", "1">> -> <<"/", "c", "/", "1">>
      [] OTHER -> <<"?">>

IsPrincipalQuery(n) == sent[n].query = "current-user-principal"

IsHomeSetQuery(n) == sent[n].query = "calendar-home-set"

\* reply n came back without error and carries the property that query n asked for
CarriesProperty(n) ==
    /\ replies[n].err = NoError
    /\ HasFirstPropStat(replies[n])
    /\ IF IsPrincipalQuery(n)
       THEN FirstProp(replies[n]).CurrentUserPrincipal # <<>>
       ELSE FirstProp(replies[n]).CalendarHomeSet # <<>>

\* reply n came back without error but lacks the property that query n asked for
LacksProperty(n) == replies[n].err = NoError /\ ~CarriesProperty(n)

ReturnedHref(n) ==
    IF IsPrincipalQuery(n)
    THEN FirstProp(replies[n]).CurrentUserPrincipal[1].Href
    ELSE FirstProp(replies[n]).CalendarHomeSet[1].Href

\* request n made its candidate fail: the query failed, or the principal href
\* it returned cannot be unescaped
Failed(n) ==
    \/ replies[n].err # NoError
    \/ IsPrincipalQuery(n) /\ CarriesProperty(n) /\ BadHref(ReturnedHref(n))

FailureOf(n) ==
    IF replies[n].err # NoError THEN replies[n].err
    ELSE EscapeError(BadEscape(ReturnedHref(n)))

CandidateFailedInLog(c) == \E n \in 1..Len(sent) : sent[n].cand = c /\ Failed(n)

AllCandidatesFailed == \A c \in 1..Len(paths) : CandidateFailedInLog(c)

\* candidate c succeeded in both property queries
SucceededBoth(c) ==
    \E n \in 2..Len(sent) :
        /\ sent[n].cand = c /\ IsHomeSetQuery(n) /\ CarriesProperty(n)
        /\ sent[n - 1].cand = c /\ IsPrincipalQuery(n - 1) /\ CarriesProperty(n - 1)

(***************************************************************************)
(* C1: when every candidate of paths fails, discoverServer returns no      *)
(* client and an aggregate error with exactly one cause per candidate, the *)
(* i-th cause being the error of the i-th candidate, whether it failed in  *)
(* its first or in its second query.                                       *)
(***************************************************************************)
C1_AggregateInCandidateOrder ==
    AllCandidatesFailed =>
        /\ dpc = "returned"
        /\ ncClient = <<>>
        /\ ncErr.type = "WF11301"
        /\ Len(ncErr.causes) = Len(paths)
        /\ \A c \in 1..Len(paths) :
               \E n \in 1..Len(sent) :
                   sent[n].cand = c /\ Failed(n) /\ ncErr.causes[c] = FailureOf(n)

\* all four candidates failed, in a first query, in an unescape and in a second query
C1_Witness ==
    /\ AllCandidatesFailed
    /\ \E n \in 1..Len(sent) : IsPrincipalQuery(n) /\ replies[n].err # NoError
    /\ \E n \in 1..Len(sent) : IsHomeSetQuery(n) /\ replies[n].err # NoError
    /\ \E n \in 1..Len(sent) : Failed(n) /\ replies[n].err = NoError

(***************************************************************************)
(* C2: a request for candidate i+1 is sent only after candidate i failed,  *)
(* and once a candidate succeeded in both of its queries no request is     *)
(* ever sent again.                                                        *)
(***************************************************************************)
C2_SequentialShortCircuit ==
    /\ \A n \in 1..Len(sent) :
           sent[n].cand > 1 =>
               \E m \in 1..(n - 1) : sent[m].cand = sent[n].cand - 1 /\ Failed(m)
    /\ \A n \in 1..Len(sent) :
           (IsHomeSetQuery(n) /\ replies[n].err = NoError) => n = Len(sent)

\* "" and "/caldav" failed, "/caldav/st" succeeded, "/.well-known/caldav" was not probed
C2_Witness ==
    /\ dpc = "returned"
    /\ CandidateFailedInLog(1)
    /\ CandidateFailedInLog(2)
    /\ SucceededBoth(3)
    /\ ncClient # <<>>
    /\ \A n \in 1..Len(sent) : sent[n].cand # 4

(***************************************************************************)
(* C3, as claimed: when a candidate succeeds in both property queries,     *)
(* NewClient returns a client and no error.                                *)
(***************************************************************************)
C3_AsClaimed ==
    (\E c \in 1..Len(paths) : SucceededBoth(c)) =>
        /\ dpc = "returned"
        /\ ncClient # <<>>
        /\ ncErr = NoError

(***************************************************************************)
(* C3, amended: when a candidate succeeds in both property queries it is   *)
(* the first such candidate in list order (every earlier one failed), its  *)
(* second query was issued at the unescaped principal href of its first    *)
(* query, and NewClient returns at once: a client bound to the unescaped   *)
(* calendar-home-set href and no error if that href can be unescaped, and  *)
(* otherwise no client and the unescape error.                             *)
(***************************************************************************)
C3_BoundToUnescapedHomeSet ==
    \A n \in 2..Len(sent) :
        (IsHomeSetQuery(n) /\ CarriesProperty(n)) =>
            /\ n = Len(sent)
            /\ dpc = "returned"
            /\ IsPrincipalQuery(n - 1) /\ sent[n - 1].cand = sent[n].cand
            /\ sent[n].path = Decoded(ReturnedHref(n - 1))
            /\ \A c \in 1..(sent[n].cand - 1) : CandidateFailedInLog(c)
            /\ IF BadHref(ReturnedHref(n))
               THEN /\ ncClient = <<>>
                    /\ ncErr = EscapeError(BadEscape(ReturnedHref(n)))
               ELSE /\ ncErr = NoError
                    /\ Len(ncClient) = 1
                    /\ ncClient[1].path = Decoded(ReturnedHref(n))
                    /\ ncClient[1].emailAddress \in Usernames

\* the third candidate succeeded, with escaped hrefs in both replies
C3_Witness ==
    /\ SucceededBoth(3)
    /\ ncClient # <<>>
    /\ ncClient[1].path = <<"/", "u", "@", "x">>
    /\ sent[Len(sent)].path = <<"/", "a", " ", "b">>

(***************************************************************************)
(* C4: every failure of discovery reaches the caller as an error value:    *)
(* when a reply comes back without error but lacks the property asked for, *)
(* NewClient does not crash; the candidate counts as failed or NewClient   *)
(* returns an error.                                                       *)
(***************************************************************************)
C4_MissingPropertyIsAnError ==
    \A n \in 1..Len(sent) :
        LacksProperty(n) =>
            /\ dpc # "panic"
            /\ \/ Len(errs) >= sent[n].cand
               \/ dpc = "returned" /\ ncErr # NoError /\ ncClient = <<>>

(***************************************************************************)
(* Reading a call of CalendarEvents.                                       *)
(***************************************************************************)
EnumerationAnswered == multistatus # <<>> /\ multistatus[1].err = NoError

Listed == multistatus[1].Responses

\* the response has a per-item status of success and lists the event component type
Qualifies(r) ==
    /\ Len(r.PropStats) > 0
    /\ r.PropStats[1].Status = "HTTP/1.1 200 OK"
    /\ r.PropStats[1].Prop.SupportedCalendarComponentSet # <<>>
    /\ \E i \in 1..Len(r.PropStats[1].Prop.SupportedCalendarComponentSet[1].Components) :
           r.PropStats[1].Prop.SupportedCalendarComponentSet[1].Components[i].Name = "VEVENT"

\* the calendar list entry that a response stands for
EntryOf(r) ==
    CalendarListEntry(Decoded(r.Href), client.emailAddress, r.PropStats[1].Prop.DisplayName,
                      IF r.PropStats[1].Prop.CalendarTimezone = <<>> THEN ""
                      ELSE r.PropStats[1].Prop.CalendarTimezone[1].Id)

\* the collection of response r is in the result of findCalendars
Included(r) ==
    \E j \in 1..Len(calendars) : calendars[j].displayName = r.PropStats[1].Prop.DisplayName

\* findCalendars returned an error: CalendarEvents returned one before any event query
FindCalendarsFailed ==
    multistatus # <<>> /\ epc = "returned" /\ ceErr # NoError /\ answers = <<>>

\* findCalendars returned a list
FindCalendarsListed == EnumerationAnswered /\ epc # "panic" /\ ~FindCalendarsFailed

(***************************************************************************)
(* C5, as claimed: for every response of the enumeration query (each with  *)
(* a per-item status), its collection is in the result of findCalendars if *)
(* and only if the status is success and the component set has VEVENT.     *)
(***************************************************************************)
C5_AsClaimed ==
    (EnumerationAnswered /\ \A i \in 1..Len(Listed) : Len(Listed[i].PropStats) > 0) =>
        \A i \in 1..Len(Listed) : Included(Listed[i]) <=> Qualifies(Listed[i])

(***************************************************************************)
(* C5, amended: whenever findCalendars returns a list, a response's        *)
(* collection is in it if and only if the per-item status is success and   *)
(* the component set has VEVENT; a response without VEVENT, or without a   *)
(* component set, never produces an error: when findCalendars returns an   *)
(* error to an answered query, it is the unescape error of a response that *)
(* has a success status and VEVENT.                                        *)
(***************************************************************************)
C5_ListedIffOkAndEvent ==
    /\ FindCalendarsListed =>
           /\ \A i \in 1..Len(Listed) : Included(Listed[i]) <=> Qualifies(Listed[i])
           /\ \A j \in 1..Len(calendars) :
                  \E i \in 1..Len(Listed) : Qualifies(Listed[i]) /\ calendars[j] = EntryOf(Listed[i])
    /\ (FindCalendarsFailed /\ EnumerationAnswered) =>
           \E i \in 1..Len(Listed) :
               /\ Qualifies(Listed[i])
               /\ BadHref(Listed[i].Href)
               /\ ceErr = EscapeError(BadEscape(Listed[i].Href))

\* a to-do list with an href that cannot be unescaped is left out without an
\* error, next to a calendar that is listed
C5_Witness ==
    /\ FindCalendarsListed
    /\ Len(Listed) = 2
    /\ Listed[1].PropStats[1].Prop.DisplayName = "Tasks"
    /\ Listed[2].PropStats[1].Prop.DisplayName = "Work"
    /\ Len(calendars) = 1
    /\ calendars[1].path = <<"/", "c", "/", "1">>

(***************************************************************************)
(* C6: when the event query of the k-th calendar fails, CalendarEvents     *)
(* returns at once that query's error and a nil list, without the events   *)
(* of the calendars before it, and queries no calendar after the k-th.     *)
(***************************************************************************)
C6_FailFastNoPartialResult ==
    \A k \in 1..Len(answers) :
        answers[k].err # NoError =>
            /\ k = Len(answers)
            /\ Len(queries) = k + 1
            /\ queries[k + 1].path = calendars[k].path
            /\ epc = "returned"
            /\ ceErr = answers[k].err
            /\ ceResult = <<>>

\* the second calendar's query failed after the first one had returned events
C6_Witness ==
    /\ Len(calendars) = 2
    /\ Len(answers) = 2
    /\ Len(answers[1].events) = 2
    /\ answers[2].err # NoError
    /\ epc = "returned"

RECURSIVE EventsBefore(_)
EventsBefore(k) == IF k <= 1 THEN 0 ELSE EventsBefore(k - 1) + Len(answers[k - 1].events)

(***************************************************************************)
(* C7: when every query succeeds, CalendarEvents sends one event query per *)
(* enumerated calendar, in enumeration order, and returns the per-calendar *)
(* event lists concatenated in that order, each in the order the server    *)
(* sent it: nothing is dropped, duplicated, merged or reordered.           *)
(***************************************************************************)
C7_OneQueryPerCalendarConcatenated ==
    (epc = "returned" /\ ceErr = NoError) =>
        /\ Len(answers) = Len(calendars)
        /\ Len(queries) = 1 + Len(calendars)
        /\ queries[1].method = "PROPFIND"
        /\ \A k \in 1..Len(calendars) :
               /\ queries[k + 1].method = "REPORT"
               /\ queries[k + 1].path = calendars[k].path
        /\ Len(ceResult) = 1
        /\ Len(ceResult[1]) = EventsBefore(Len(calendars) + 1)
        /\ \A k \in 1..Len(calendars) :
               \A j \in 1..Len(answers[k].events) :
                   /\ ceResult[1][EventsBefore(k) + j].Event = answers[k].events[j]
                   /\ ceResult[1][EventsBefore(k) + j].calendar = calendars[k]

\* two calendars, the first answered with two events and the second with the
\* first of them again
C7_Witness ==
    /\ epc = "returned"
    /\ ceErr = NoError
    /\ Len(calendars) = 2
    /\ calendars[1] # calendars[2]
    /\ Len(answers[1].events) = 2
    /\ answers[1].events[1].UID = "uid-2"
    /\ answers[1].events[2].UID = "uid-1"
    /\ Len(answers[2].events) = 1
    /\ answers[2].events[1].UID = "uid-2"

(***************************************************************************)
(* Reading a mapped event.                                                 *)
(***************************************************************************)
Mapped == mpc = "mapped"

OwnerAddress == parentCalendar[1].emailAddress

RawAttendeesOfEvent == rawEvent[1].Attendees

MatchingAttendees ==
    {i \in 1..Len(RawAttendeesOfEvent) : RawAttendeesOfEvent[i].Entry.Address = OwnerAddress}

FirstMatchingAttendee == CHOOSE i \in MatchingAttendees : \A j \in MatchingAttendees : i <= j

(***************************************************************************)
(* C8, as claimed: IsAllDay is true if and only if the start and the end,  *)
(* each truncated to whole seconds, equal the zero time; so an event whose *)
(* start and end lie less than one second after the zero time is all-day.  *)
(***************************************************************************)
C8_AsClaimed ==
    Mapped =>
        (IsAllDay(item[1]) <=>
            /\ rawEvent[1].DateStart < Second
            /\ rawEvent[1].DateEnd < Second)

(***************************************************************************)
(* C8, amended: IsAllDay is true if and only if the start and the end,     *)
(* each truncated to whole milliseconds, equal the zero time: both lie     *)
(* less than one millisecond after the zero time.                          *)
(***************************************************************************)
C8_AllDayIffZeroToTheMillisecond ==
    Mapped =>
        (IsAllDay(item[1]) <=>
            /\ rawEvent[1].DateStart < Millisecond
            /\ rawEvent[1].DateEnd < Millisecond)

\* an event that starts and ends within the first millisecond, but not at the
\* zero time itself, is all-day
C8_Witness ==
    /\ Mapped
    /\ rawEvent[1].DateStart = Millisecond - 1
    /\ rawEvent[1].DateEnd = 1
    /\ IsAllDay(item[1])

(***************************************************************************)
(* C9: the responseType of a mapped event is Unknown when no attendee's    *)
(* address equals (exactly, names ignored) the owning calendar's account   *)
(* address, and otherwise the converted participation status of the first  *)
(* attendee with that address.                                             *)
(***************************************************************************)
C9_ResponseTypeOfFirstExactMatch ==
    Mapped =>
        item[1].responseType =
            IF MatchingAttendees = {} THEN "Unknown"
            ELSE ParticipationStatusToMeetingResponseType(
                     RawAttendeesOfEvent[FirstMatchingAttendee].ParticipationStatus)

\* two attendees carry the owner's address with different statuses, the first decides
C9_Witness ==
    /\ Mapped
    /\ Cardinality(MatchingAttendees) = 2
    /\ RawAttendeesOfEvent[1].ParticipationStatus = "DECLINED"
    /\ RawAttendeesOfEvent[2].ParticipationStatus = "ACCEPTED"
    /\ item[1].responseType = "Decline"

(***************************************************************************)
(* C10: the mapped organizer is absent exactly when the raw event has no   *)
(* organizer, and the organizer does not decide the responseType: an event *)
(* without attendees maps to no attendees and responseType Unknown, also   *)
(* when its organizer's address is the owning calendar's account address.  *)
(***************************************************************************)
C10_OrganizerAbsentIffNoneAndIgnored ==
    Mapped =>
        /\ (item[1].organizer = <<>>) <=> (rawEvent[1].Organizer = <<>>)
        /\ rawEvent[1].Organizer # <<>> =>
               /\ Len(item[1].organizer) = 1
               /\ item[1].organizer[1].address = rawEvent[1].Organizer[1].Entry.Address
               /\ item[1].organizer[1].name = rawEvent[1].Organizer[1].Entry.Name
        /\ rawEvent[1].Attendees = <<>> =>
               /\ item[1].attendees = <<>>
               /\ item[1].responseType = "Unknown"

\* the organizer is the account itself and there are no attendees
C10_Witness ==
    /\ Mapped
    /\ rawEvent[1].Organizer # <<>>
    /\ rawEvent[1].Organizer[1].Entry.Address = OwnerAddress
    /\ rawEvent[1].Attendees = <<>>
    /\ item[1].organizer # <<>>
    /\ item[1].responseType = "Unknown"


(***************************************************************************)
(* C11: LastModifiedAt of a mapped event equals its CreatedAt when the raw *)
(* last-modified field is absent, and is the raw last-modified time when   *)
(* the field is present.                                                   *)
(***************************************************************************)
C11_LastModifiedDefaultsToCreated ==
    Mapped =>
        /\ rawEvent[1].LastModified = <<>> =>
               /\ LastModifiedAt(item[1]) = CreatedAt(item[1])
               /\ LastModifiedAt(item[1]) = rawEvent[1].Created
        /\ rawEvent[1].LastModified # <<>> =>
               LastModifiedAt(item[1]) = rawEvent[1].LastModified[1]

\* an event without last-modified field, created one nanosecond after a second
C11_Witness ==
    /\ Mapped
    /\ rawEvent[1].LastModified = <<>>
    /\ rawEvent[1].Created = Second + 1
    /\ LastModifiedAt(item[1]) = Second + 1


(***************************************************************************)
(* C12: every request that passes the transport chain reaches the inner    *)
(* transport with the Basic-auth credentials and the "Prefer:               *)
(* return-minimal" header; "Depth: 1" is added exactly when the method is  *)
(* REPORT, and for any other method the Depth header is as the caller set  *)
(* it.                                                                     *)
(***************************************************************************)
C12_HeadersOfDeliveredRequests ==
    tpc = "delivered" =>
        /\ Len(delivered) = 1
        /\ delivered[1].Method = issued[1].Method
        /\ delivered[1].Header.Authorization =
               <<[scheme |-> "Basic", username |-> credentials.username,
                  password |-> credentials.password]>>
        /\ delivered[1].Header.Prefer = Append(issued[1].Header.Prefer, "return-minimal")
        /\ IF issued[1].Method = "REPORT"
           THEN delivered[1].Header.Depth = Append(issued[1].Header.Depth, "1")
           ELSE delivered[1].Header.Depth = issued[1].Header.Depth

\* a PROPFIND that the caller sent with "Depth: 0" is delivered with that depth only
C12_Witness ==
    /\ tpc = "delivered"
    /\ issued[1].Method = "PROPFIND"
    /\ issued[1].Header.Depth = <<"0">>
    /\ delivered[1].Header.Depth = <<"0">>
    /\ delivered[1].Header.Prefer = <<"return-minimal">>
    /\ delivered[1].Header.Authorization[1].username = "a@x"


(***************************************************************************)
(* C14: no step of a CalendarEvents call, successful or failing, changes   *)
(* the client's path or account address or the transport configuration;    *)
(* every enumeration query of every call goes to the path the client was   *)
(* constructed with, and a call starts from empty locals whatever the      *)
(* earlier calls on this client did.                                       *)
(***************************************************************************)
C14_CallsLeaveTheClientUnchanged ==
    [][ /\ client'.path = client.path
        /\ client'.emailAddress = client.emailAddress
        /\ transport' = transport
        /\ \A i \in 1..Len(queries') :
               queries'[i].method = "PROPFIND" => queries'[i].path = client.path
        /\ calls' # calls =>
               /\ calendars' = <<>>
               /\ calendarItems' = <<>>
               /\ multistatus' = <<>>
               /\ queries' = <<>>
               /\ answers' = <<>> ]_vars

\* a second call on a client whose first call listed calendars, and which has
\* itself enumerated and returned events
C14_Witness ==
    /\ calls > 1
    /\ epc = "returned"
    /\ ceErr = NoError
    /\ Len(queries) > 1
    /\ queries[1].path = client.path
    /\ ceResult # <<>> /\ Len(ceResult[1]) > 0


(***************************************************************************)
(* Counting the requests of one call.                                      *)
(***************************************************************************)
\* the requests of NewClient that put query q to candidate c
SentTo(c, q) == {n \in 1..Len(sent) : sent[n].cand = c /\ sent[n].query = q}

\* the requests of the current CalendarEvents call with method m
QueriesWith(m) == {n \in 1..Len(queries) : queries[n].method = m}

\* no request of NewClient is repeated: each candidate gets at most one query
\* of each kind, the second only after its first succeeded
DiscoveryNeverRetries ==
    /\ \A c \in 1..Len(paths) :
           /\ Cardinality(SentTo(c, "current-user-principal")) <= 1
           /\ Cardinality(SentTo(c, "calendar-home-set")) <= 1
    /\ \A n \in 1..Len(sent) :
           /\ sent[n].cand \in 1..Len(paths)
           /\ IsHomeSetQuery(n) =>
                  /\ n > 1
                  /\ sent[n - 1].cand = sent[n].cand
                  /\ IsPrincipalQuery(n - 1)
                  /\ CarriesProperty(n - 1)
                  /\ ~BadHref(ReturnedHref(n - 1))
    /\ Len(sent) <= 2 * Len(paths)

\* at most one event query per enumerated calendar, after the enumeration query
EventQueriesNeverRetried ==
    /\ Cardinality(QueriesWith("PROPFIND")) <= 1
    /\ QueriesWith("REPORT") = 2..Len(queries)
    /\ Len(queries) > 1 => Len(queries) - 1 <= Len(calendars)
    /\ \A n \in 2..Len(queries) : queries[n].path = calendars[n - 1].path

\* the CalendarEvents call is over
CallOver == calls > 0 /\ epc \in {"returned", "panic"}

(***************************************************************************)
(* C13, as claimed: no request is retried; in particular every             *)
(* CalendarEvents call sends exactly one enumeration query.                *)
(***************************************************************************)
C13_AsClaimed ==
    /\ DiscoveryNeverRetries
    /\ EventQueriesNeverRetried
    /\ CallOver => Cardinality(QueriesWith("PROPFIND")) = 1

(***************************************************************************)
(* C13, amended: within one NewClient call each candidate path receives at *)
(* most one current-user-principal query and at most one calendar-home-set *)
(* query, the latter only after the former succeeded, so at most 2 x 4     *)
(* requests are sent; within one CalendarEvents call at most one event     *)
(* query per calendar is sent, after exactly one enumeration query, unless *)
(* the range query cannot be built: that call sends no request at all.     *)
(***************************************************************************)
C13_NoRequestIsRetried ==
    /\ DiscoveryNeverRetries
    /\ EventQueriesNeverRetried
    /\ CallOver =>
           IF ceErr.type = "range"
           THEN queries = <<>>
           ELSE QueriesWith("PROPFIND") = {1}

\* a CalendarEvents call that sent its enumeration query and one event query to
\* each of two calendars, on a client that has served a call before
C13_Witness ==
    /\ CallOver
    /\ calls > 1
    /\ ceErr = NoError
    /\ Len(calendars) = 2
    /\ Len(queries) = 3


(***************************************************************************)
(* Reading the runs of the consumer.                                       *)
(***************************************************************************)
\* the run of an account that is synced alone and receives the given replies
RECURSIVE Alone(_, _)
Alone(received, k) ==
    IF k = 0 THEN [QueuedRun EXCEPT !.pc = "principal", !.idx = 1]
    ELSE discoverStep(Alone(received, k - 1), received[k])

AloneRun(a) == Alone(runs[a].received, Len(runs[a].received))

\* the sync of account a has started and is not over
Syncing(a) == runs[a].pc \in {"principal", "homeset", "events"}

\* the requests and the result of NewClient are those of the account alone
RequestsAsAlone ==
    \A a \in Accounts :
        runs[a].pc # "queued" =>
            /\ runs[a].sent = AloneRun(a).sent
            /\ runs[a].ncErr = AloneRun(a).ncErr
            /\ runs[a].path = AloneRun(a).path

\* a sync that has started goes on until it returns or panics itself
NoSyncEndedByAnother == \A a \in Accounts : Syncing(a) => ~crashed

\* a sync logs with the logger it would log with alone
LoggerAsAlone ==
    \A a \in Accounts :
        Syncing(a) => logger = (IF a \in debugUsers THEN "test" ELSE "production")

C16_MappingAndAccessorsAreTotal ==
    /\ mpc # "panic"
    /\ mpc \in {"mapped", "read"} => Len(item) = 1
    /\ mpc = "read" =>
           /\ Len(readout) = 1
           /\ readout[1].URL =
                  (IF rawEvent[1].Url.kind = "encodes" THEN rawEvent[1].Url.text ELSE "")
           /\ readout[1].Location =
                  (IF rawEvent[1].Location.kind = "encodes" THEN rawEvent[1].Location.text ELSE "")
           /\ (rawEvent[1].Organizer = <<>>) <=> (readout[1].Organizer = <<>>)
           /\ Len(readout[1].Attendees) = Len(rawEvent[1].Attendees)
           /\ rawEvent[1].LastModified = <<>> => readout[1].LastModifiedAt = rawEvent[1].Created

\* an event that lacks all five optional fields, its url a nil pointer in a
\* non-nil interface, has been mapped and read
C16_Witness ==
    /\ mpc = "read"
    /\ rawEvent[1].Organizer = <<>>
    /\ rawEvent[1].Attendees = <<>>
    /\ rawEvent[1].LastModified = <<>>
    /\ rawEvent[1].Url = NilPointer
    /\ rawEvent[1].Location = NilInterface
    /\ readout[1].URL = ""
    /\ readout[1].Location = ""


(***************************************************************************)
(* C17: the list that findCalendars returns is the list of the server's    *)
(* responses that qualify, in the server's order, one entry for each: a    *)
(* response whose component set names VEVENT twice gives one entry, and    *)
(* two responses with the same href give two.                              *)
(***************************************************************************)
C17_OrderPreservingSubsequence ==
    FindCalendarsListed =>
        LET qualifying == SelectSeq(Listed, Qualifies)
        IN  /\ Len(calendars) = Len(qualifying)
            /\ \A k \in 1..Len(qualifying) : calendars[k] = EntryOf(qualifying[k])

\* two responses with the same href, each naming VEVENT twice: both are
\* listed, once each
C17_Witness ==
    /\ FindCalendarsListed
    /\ Len(Listed) = 2
    /\ Listed[1].Href = Listed[2].Href
    /\ Len(Listed[1].PropStats[1].Prop.SupportedCalendarComponentSet[1].Components) = 3
    /\ Len(calendars) = 2
    /\ calendars[1].path = calendars[2].path


\* the enumeration query itself failed
EnumerationFailed == multistatus # <<>> /\ multistatus[1].err # NoError

\* response i qualifies and its href cannot be unescaped; no response before it
\* does, and each of them has a per-item status
FirstMalformed(i) ==
    /\ EnumerationAnswered
    /\ i \in 1..Len(Listed)
    /\ Qualifies(Listed[i])
    /\ BadHref(Listed[i].Href)
    /\ \A j \in 1..(i - 1) :
           /\ Len(Listed[j].PropStats) > 0
           /\ ~(Qualifies(Listed[j]) /\ BadHref(Listed[j].Href))

\* CalendarEvents returned e and a nil list after the enumeration query alone
ReturnedAfterEnumeration(e) ==
    /\ epc = "returned"
    /\ ceErr = e
    /\ ceResult = <<>>
    /\ Len(queries) = 1
    /\ queries[1].method = "PROPFIND"
    /\ answers = <<>>

(***************************************************************************)
(* C18: when the enumeration query fails in transport, or a qualifying     *)
(* response carries an href that cannot be unescaped, CalendarEvents       *)
(* returns that very error and a nil list, and sends no event query, not   *)
(* even to the calendars listed before the malformed one.                  *)
(***************************************************************************)
C18_EnumerationFailureEndsTheCall ==
    /\ EnumerationFailed => ReturnedAfterEnumeration(multistatus[1].err)
    /\ \A i \in 1..MaxResponses + 1 :
           FirstMalformed(i) =>
               ReturnedAfterEnumeration(EscapeError(BadEscape(Listed[i].Href)))

\* a calendar with a good href is listed before one whose href cannot be
\* unescaped: the call is over with one request sent
C18_Witness ==
    /\ FirstMalformed(2)
    /\ Qualifies(Listed[1])
    /\ Decoded(Listed[1].Href) = <<"/", "c", "/", "1">>
    /\ epc = "returned"
    /\ ceErr = EscapeError(<<"%", "z", "z">>)
    /\ Len(queries) = 1


(***************************************************************************)
(* C19: the mapped attendee list has one entry per raw attendee, in the    *)
(* raw order; the i-th entry has the name and the address of the i-th raw  *)
(* attendee and the conversion of that attendee's own participation        *)
(* status.                                                                 *)
(***************************************************************************)
C19_AttendeesOneToOneInOrder ==
    Mapped =>
        /\ Len(item[1].attendees) = Len(RawAttendeesOfEvent)
        /\ \A i \in 1..Len(RawAttendeesOfEvent) :
               /\ item[1].attendees[i].emailAddress.name = RawAttendeesOfEvent[i].Entry.Name
               /\ item[1].attendees[i].emailAddress.address = RawAttendeesOfEvent[i].Entry.Address
               /\ item[1].attendees[i].responseType =
                      ParticipationStatusToMeetingResponseType(
                          RawAttendeesOfEvent[i].ParticipationStatus)

\* two attendees with different names, addresses and statuses
C19_Witness ==
    /\ Mapped
    /\ Len(RawAttendeesOfEvent) = 2
    /\ RawAttendeesOfEvent[1] = RawAttendee("Bob", "b@x", "NEEDS-ACTION")
    /\ RawAttendeesOfEvent[2] = RawAttendee("Ann", "a@x", "ACCEPTED")
    /\ item[1].attendees[1].responseType = "NoResponseReceived"
    /\ item[1].attendees[2].responseType = "Accept"


\* the responses of the enumeration that qualify, in the server's order
QualifyingResponses == SelectSeq(Listed, Qualifies)

\* the response type of a raw event for an account address: the converted
\* status of the first attendee with that address
ResponseTypeFor(event, address) ==
    LET matching == {i \in 1..Len(event.Attendees) : event.Attendees[i].Entry.Address = address}
    IN  IF matching = {} THEN "Unknown"
        ELSE ParticipationStatusToMeetingResponseType(
                 event.Attendees[CHOOSE i \in matching : \A j \in matching : i <= j]
                     .ParticipationStatus)

(***************************************************************************)
(* C20: every event that CalendarEvents returns carries the context of the *)
(* calendar whose query returned it: its CalendarID is that calendar's     *)
(* unescaped href, its CalendarDisplayName and TimeZone are that           *)
(* calendar's display name and time-zone ID, and its responseType is the   *)
(* one computed against the account address of the client.                 *)
(***************************************************************************)
C20_EventsCarryTheirOwnCalendar ==
    (epc = "returned" /\ ceErr = NoError /\ calls > 0 /\ Len(queries) > 0) =>
        \A k \in 1..Len(answers) :
            \A j \in 1..Len(answers[k].events) :
                LET it == ceResult[1][EventsBefore(k) + j]
                    response == QualifyingResponses[k]
                IN  /\ CalendarID(it) = Decoded(response.Href)
                    /\ CalendarID(it) = queries[k + 1].path
                    /\ CalendarDisplayName(it) = response.PropStats[1].Prop.DisplayName
                    /\ TimeZone(it) =
                           (IF response.PropStats[1].Prop.CalendarTimezone = <<>> THEN ""
                            ELSE response.PropStats[1].Prop.CalendarTimezone[1].Id)
                    /\ it.responseType = ResponseTypeFor(answers[k].events[j], client.emailAddress)

\* two calendars that differ in path, name and time zone each returned the
\* same event, to a client whose address is the event's attendee
C20_Witness ==
    /\ epc = "returned"
    /\ ceErr = NoError
    /\ Len(answers) = 2
    /\ Len(ceResult[1]) = 2
    /\ ceResult[1][1].Event = ceResult[1][2].Event
    /\ CalendarID(ceResult[1][1]) = <<"/", "p">>
    /\ CalendarID(ceResult[1][2]) = <<"/", "c", "/", "1">>
    /\ TimeZone(ceResult[1][1]) = ""
    /\ TimeZone(ceResult[1][2]) = "Europe/Oslo"
    /\ ceResult[1][2].responseType = "Accept"


\* the call could not build its range query
RangeQueryFailed == calls > 0 /\ epc = "returned" /\ ceErr.type = "range"

(***************************************************************************)
(* C21: a call whose range query cannot be built returns that error and a  *)
(* nil list and has sent no request, neither the enumeration query nor an  *)
(* event query; in every other call the range query exists before the      *)
(* first request is sent and every event query carries that one range.     *)
(***************************************************************************)
C21_RangeBuiltFirstAndShared ==
    /\ RangeQueryFailed =>
           /\ ceErr = RangeError
           /\ ceResult = <<>>
           /\ queries = <<>>
           /\ answers = <<>>
           /\ multistatus = <<>>
    /\ queries # <<>> =>
           /\ Len(query) = 1
           /\ query[1] \in Windows
           /\ ~RangeQueryFailed
    /\ \A n \in 1..Len(queries) :
           queries[n].method = "REPORT" => queries[n].query = query

\* a client that has served a call before is called with a window for which no
\* range query can be built: the call is over and nothing was sent
C21_Witness ==
    /\ RangeQueryFailed
    /\ calls > 1
    /\ queries = <<>>
    /\ ceResult = <<>>


C22_DebugKeepsTestLogger ==
    \A a \in Accounts \cap debugUsers : Syncing(a) => logger = "test"


(***************************************************************************)
(* Reading the calls of syncAccount.                                       *)
(***************************************************************************)
\* the n-th call of the log was call op for account k and succeeded
Succeeded(n, k, op) ==
    /\ n \in 1..Len(syncLog)
    /\ syncLog[n] = SyncCall(k, op, "ok")

LastCall(log) == log[Len(log)]

\* every delete follows the successful creation of the client and the
\* successful fetch of the same account, every put a successful delete
DeleteAndPutInOrder ==
    \A n \in 1..Len(syncLog) :
        /\ syncLog[n].op = "delete" =>
               /\ Succeeded(n - 1, syncLog[n].acct, "fetch")
               /\ Succeeded(n - 2, syncLog[n].acct, "client")
        /\ syncLog[n].op = "put" => Succeeded(n - 1, syncLog[n].acct, "delete")

\* a step that creates the client or fetches leaves the store as it is, whatever
\* its outcome; the store changes in a successful delete or put alone; after a
\* failed put the user has no stored events
StoreChangesOnlyInDeleteAndPut ==
    /\ spc \in {"parse", "client", "fetch"} => stored' = stored
    /\ stored' # stored =>
           /\ spc \in {"delete", "put"}
           /\ LastCall(syncLog').outcome = "ok"
    /\ (spc = "delete" /\ LastCall(syncLog').outcome = "ok") => stored' = <<>>
    /\ (spc = "put" /\ LastCall(syncLog').outcome = "error") => stored' = <<>>
    /\ (spc = "put" /\ LastCall(syncLog').outcome = "ok") => stored' = fetched

(***************************************************************************)
(* C23: syncAccount deletes the user's stored events only after the client *)
(* was created and CalendarEvents succeeded, and calls PutEvents only      *)
(* after the delete succeeded; a failure of discovery or of the fetch      *)
(* leaves the stored events unchanged, and a failure of PutEvents leaves   *)
(* the user with no stored events.                                         *)
(***************************************************************************)
C23_DeleteAfterFetchPutAfterDelete ==
    []DeleteAndPutInOrder /\ [][StoreChangesOnlyInDeleteAndPut]_vars

\* a user with stored events and one account: the client, the fetch and the
\* delete succeeded and the put failed, and nothing is stored
C23_Witness ==
    /\ spc = "returned"
    /\ Len(syncLog) = 4
    /\ Succeeded(3, 1, "delete")
    /\ syncLog[4] = SyncCall(1, "put", "error")
    /\ fetched # <<>>
    /\ stored = <<>>
    /\ Len(logged) = 1


\* the accounts of the message's user
UserAccounts == 1..Len(message.accounts)

\* the sync of account k was started: its client was asked for
SyncStarted(k) == \E n \in 1..Len(syncLog) : syncLog[n].acct = k /\ syncLog[n].op = "client"

\* the sync of account k failed in some call
SyncFailed(k) == \E n \in 1..Len(syncLog) : syncLog[n].acct = k /\ syncLog[n].outcome # "ok"

\* processMessage is over: it returned, or the goroutine ended in a panic
ProcessingOver == spc \in {"returned", "panic"}

\* the syncs are started one after another in the order of the list
SyncedInListOrder ==
    \A n \in 1..Len(syncLog) :
        /\ syncLog[n].acct \in UserAccounts
        /\ n > 1 => syncLog[n - 1].acct <= syncLog[n].acct
        /\ (n > 1 /\ syncLog[n - 1].acct < syncLog[n].acct) =>
               /\ syncLog[n].acct = syncLog[n - 1].acct + 1
               /\ syncLog[n].op = "client"

\* the same as C25 for the syncs that fail by returning an error
ErrorsAreOnlyLogged ==
    (spc = "returned" /\ message.parsed) =>
        /\ pmResult = <<NoError>>
        /\ \A k \in UserAccounts : SyncStarted(k)
        /\ \A k \in UserAccounts :
               SyncFailed(k) <=> \E i \in 1..Len(logged) : logged[i].acct = k

(***************************************************************************)
(* C25, as claimed: the accounts of a user are synced one after another in *)
(* list order; whenever the body parsed, and whatever the outcome of each  *)
(* sync, every account of the user is synced and processMessage returns    *)
(* nil, the failures being logged.                                         *)
(***************************************************************************)
C25_AsClaimed ==
    /\ SyncedInListOrder
    /\ (ProcessingOver /\ message.parsed) =>
           /\ pmResult = <<NoError>>
           /\ \A k \in UserAccounts : SyncStarted(k)
           /\ \A k \in UserAccounts :
                  SyncFailed(k) => \E i \in 1..Len(logged) : logged[i].acct = k


(***************************************************************************)
(* C24: the delete of every message of a batch is attempted before the     *)
(* processing of any message of that batch starts, and every message of    *)
(* the batch is processed whether the delete failed or not; so no message  *)
(* is processed before a delete of it was attempted, and a message is      *)
(* delivered again only when a delete of it failed, never because its      *)
(* processing failed.                                                      *)
(***************************************************************************)
C24_DeleteBeforeProcessing ==
    /\ \A m \in Messages :
           /\ processing[m].started <= attempts[m]
           /\ attempts[m] <= deliveries[m]
           /\ deliveries[m] > 1 => m \in failedDeletes
           /\ (attempts[m] > 0 /\ m \notin failedDeletes) => m \notin inQueue
    /\ qpc = "delete" =>
           \A m \in InBatch(batch) : processing[m].started < deliveries[m]
    /\ qpc = "start" =>
           \A m \in InBatch(batch) : attempts[m] = deliveries[m]
    /\ qpc = "receive" =>
           \A m \in Messages : processing[m].started = deliveries[m]

\* the delete of m1 succeeded and its processing failed: it is gone from the
\* queue; the delete of m2 failed and it was processed all the same, twice
C24_Witness ==
    /\ qpc = "receive"
    /\ "m1" \notin failedDeletes
    /\ processing["m1"].failed = 1
    /\ "m1" \notin inQueue
    /\ deliveries["m1"] = 1
    /\ "m2" \in failedDeletes
    /\ processing["m2"].started = 2

====
